---- MODULE Spec2Model ----
(***************************************************************************)
(* Request pipeline of the Api class (src/lib/api/index.ts): registration  *)
(* of global middlewares and routes, and the wrapped handler of a route    *)
(* (parse, route validation, middleware chain, route handler).             *)
(*                                                                         *)
(* Values are abstracted to strings: "10" and "x" are raw string inputs,   *)
(* "int:10" is the number 10 a coercing schema produces from "10",         *)
(* "undefined" and "null" are the falsy values, "{}" the empty record.     *)
(* The log is a history variable recording each step of the request in     *)
(* flight (what a test observes through side-effect counters).             *)
(*                                                                         *)
(* Spec is the pipeline of one request at a time.  SpecThrowingSchema is   *)
(* the same pipeline over contracts whose schema may throw, SpecHook the   *)
(* same pipeline of an Api constructed with an onError option,             *)
(* SpecConcurrent two wrappedHandler calls interleaved at their awaits,    *)
(* SpecContext the response helpers of RequestContext                      *)
(* (src/lib/api/context.ts) over a response contract and validateSchema    *)
(* called on its own, SpecMerge the merge of request contracts, SpecPaths  *)
(* and SpecOpenApi the OpenAPI generator (src/lib/api/openapi.ts) over     *)
(* every short path template and over a documented application,           *)
(* SpecPolicy a Policy (src/lib/policy/index.ts), SpecCache a Cache over a *)
(* Redis store, SpecI18n an I18n instance, SpecQuery parseQueryString,     *)
(* SpecParse and SpecEnforced the pipeline over routes whose contracts     *)
(* decide what is parsed and what is enforced, SpecServe an Api that       *)
(* defines routes, listens, closes and generates its spec in any order,    *)
(* SpecLogging a Logger over its providers.                                *)
(***************************************************************************)
EXTENDS Integers, Sequences, FiniteSets, TLC

\* ---------------------------------------------------------------- bounds
MaxGlobal == 1
MaxRoutes == 1
\* the longest argument list of a merge called on its own
MaxMerged == 3
\* the routes of a documented application, and the longest path template
MaxDocumented == 2
MaxPath == 4
\* the rules of a Policy
MaxRules == 2
\* the servers an Api starts
MaxServers == 2
\* the providers of a Logger
MaxProviders == 2
\* the records logged through a Logger
MaxRecords == 2
\* the key=value pairs of a query string
MaxQuery == 3

\* ---------------------------------------------------------------- values
Undefined == "undefined"
Null == "null"
EmptyRecord == "{}"
NoSchema == "none"

\* fieldsToValidate keeps this order
Slots == <<"body", "params", "query", "headers", "cookies">>
SlotSet == {"body", "params", "query", "headers", "cookies"}

Truthy(v) == v \notin {Undefined, Null}

\* ---------------------------------------------------------------- schemas
\* Two schema objects in the style of the tests: "num" is
\* z.string().transform(parseInt) restricted to numeric strings (coerces
\* "10" to the number 10), "str" is z.string() (identity on strings).
SchemaSet == {"num", "str"}

\* "json" is z.string().transform(JSON.parse): the transform throws on a
\* string that is not JSON, and validate() throws with it
Throws(schema, data) == schema = "json" /\ data # "10"

\* a record of string fields is written by its field names: "{}", "{a}",
\* "{q}", "{a,q}"
FieldsOf(data) ==
  IF data = "{a}" THEN {"a"}
  ELSE IF data = "{q}" THEN {"q"}
  ELSE IF data = "{a,q}" THEN {"a", "q"}
  ELSE {}

\* the fields an object schema requires: "ids" is z.object({a: z.string()}),
\* "optional" z.object({a: z.string().optional()}), "search"
\* z.object({q: z.string(), limit: z.string().optional()})
RequiredOf(schema) ==
  IF schema = "ids" THEN {"a"}
  ELSE IF schema = "search" THEN {"q"}
  ELSE {}

SchemaIssues(schema, data) ==
  IF schema = "num" THEN data # "10"
  ELSE IF schema \in {"ids", "optional", "search"}
    THEN \/ data \notin {"{}", "{a}", "{q}", "{a,q}"}
         \/ ~(RequiredOf(schema) \subseteq FieldsOf(data))
  ELSE data \notin {"10", "x"}

SchemaValue(schema, data) ==
  IF schema \in {"num", "json"} THEN "int:10" ELSE data

IssueMessage(schema) ==
  IF schema = "num" THEN "value: expected numeric string"
  ELSE "value: expected string"

\* the null in the error slot of a result
NoError == [type |-> Null, message |-> Null]

ok(data) == [error |-> NoError, value |-> data]

err(type, message) == [error |-> [type |-> type, message |-> message], value |-> Null]

\* an object handed in as a schema that has no "~standard" member
NotASchema == "plain"

\* the value that failed stays in the result beside the error
validateSchema_KeepsData(schema, data) ==
  IF schema = NoSchema THEN ok(data)
  ELSE [error |-> [type |-> "ValidationError", message |-> IssueMessage(schema)],
        value |-> data]

validateSchema(schema, data) ==
  IF schema = NoSchema THEN ok(data)
  ELSE IF schema = NotASchema
    THEN err("ValidationError", "Invalid schema: missing ~standard property")
  ELSE IF SchemaIssues(schema, data) THEN err("ValidationError", IssueMessage(schema))
  ELSE ok(SchemaValue(schema, data))

\* mightThrow turns the settlement of a promise into [error, data]
mightThrow(outcome) ==
  IF outcome.threw THEN [error |-> outcome.value, data |-> Null]
  ELSE [error |-> Null, data |-> outcome.value]

\* ---------------------------------------------------------------- responses
NoResponse == [kind |-> "none", status |-> 0, body |-> "", by |-> "", at |-> 0]

ResponseJson(message, status) ==
  [kind |-> "Response", status |-> status, body |-> message,
   by |-> "framework", at |-> 0]

INTERNAL_SERVER_ERROR == "Internal server error"

\* what user code hands back: the Response a middleware at chain position k
\* built, the Response the route handler built, or some other value
UserValue(value, by, k) ==
  [kind |-> value, status |-> IF value = "Response" THEN (IF by = "mw" THEN 401 ELSE 200) ELSE 0,
   body |-> IF value = "Response" THEN by ELSE "", by |-> by, at |-> k]

IsResponse(r) == r.kind = "Response"

\* the promise of wrappedHandler rejects with an exception nothing caught
Rejection(value, by) ==
  [kind |-> "rejection", status |-> 0, body |-> value, by |-> by, at |-> 0]

IsRejection(r) == r.kind = "rejection"

\* ---------------------------------------------------------------- contracts
\* the statuses a response contract may declare, and the values a handler
\* hands to a response helper
Statuses == {200, 302}

\* the statuses Response.redirect accepts
RedirectStatuses == {301, 302, 303, 307, 308}

ResponseContracts == [Statuses -> {NoSchema, "num", "str"}]

NoResponseSchema == [s \in Statuses |-> NoSchema]

ResponseOf(statuses) ==
  [s \in Statuses |-> IF s \in DOMAIN statuses THEN statuses[s] ELSE NoSchema]

NoRequest == [f \in SlotSet |-> NoSchema]

RequestOf(fields) ==
  [f \in SlotSet |-> IF f \in DOMAIN fields THEN fields[f] ELSE NoSchema]

\* the middleware objects of the application
Mw == {"log", "auth", "page"}

MwRequest(m) ==
  IF m = "auth" THEN RequestOf([headers |-> "num"])
  ELSE IF m = "page" THEN RequestOf([query |-> "num", cookies |-> "num"])
  ELSE IF m = "filter" THEN RequestOf([query |-> "json"])
  ELSE IF m = "session" THEN RequestOf([headers |-> "search", cookies |-> "ids"])
  ELSE IF m = "upload" THEN RequestOf([body |-> "str"])
  ELSE NoRequest

\* the response contract a middleware declares
MwResponse(m) ==
  IF m = "auth" THEN ResponseOf(200 :> "num")
  ELSE IF m = "page" THEN ResponseOf(200 :> "str" @@ 302 :> "str")
  ELSE IF m = "session" THEN ResponseOf(302 :> "str")
  ELSE NoResponseSchema

\* the keys middlewares contribute, and the record the handler of middleware
\* m returns when it returns data (c is the context it was given)
Keys == {"user", "rid"}

NoMwData == [k \in Keys |-> Undefined]

MwData(m, c) ==
  IF m = "auth" THEN [user |-> c.headers]
  ELSE IF m = "page" THEN [user |-> c.cookies, rid |-> "page"]
  ELSE [rid |-> c.query]

\* a path is the sequence of its characters; the characters \w does not match
NonWord == {"/", "{", "}", ":", "-"}

\* a route definition at GET /a without operationId, summary, description
\* and tags
Undocumented(d) ==
  [path |-> <<"/", "a">>, method |-> "GET", operationId |-> Undefined,
   summary |-> Undefined, description |-> Undefined, tags |-> Undefined,
   request |-> d.request, response |-> d.response, middlewares |-> d.middlewares]

\* the route definitions of the application: a route without request
\* contract or middlewares, a route guarded by one middleware, and a route
\* with its own request contract behind two middlewares
RouteDefinitions ==
  {Undocumented(d) : d \in
  {[request |-> NoRequest, response |-> ResponseOf(200 :> "str"),
    middlewares |-> <<>>],
   [request |-> NoRequest, response |-> ResponseOf(302 :> "num"),
    middlewares |-> <<"auth">>],
   [request |-> RequestOf([body |-> "str", query |-> "num"]),
    response |-> ResponseOf(200 :> "num"),
    middlewares |-> <<"log", "page">>]}}

\* ---------------------------------------------------------------- raw requests
RawBodies ==
  {[contentType |-> "application/json", bodyText |-> "x"],
   [contentType |-> "application/json", bodyText |-> "malformed"],
   [contentType |-> "text/plain", bodyText |-> "x"]}

RawRequests ==
  {[params |-> "x", query |-> q, headers |-> h, cookies |-> c,
    contentType |-> b.contentType, bodyText |-> b.bodyText] :
     q \in {"10", "x"}, h \in {"10", "x"}, c \in {"10", "x"},
     b \in RawBodies}

NoRaw ==
  [params |-> "", query |-> "", headers |-> "", cookies |-> "",
   contentType |-> "", bodyText |-> ""]

NoData == [f \in SlotSet |-> Undefined]

\* outcomes of user code: the handler settles with a value or throws one
MwOutcomes ==
  {[threw |-> FALSE, value |-> "data"], [threw |-> FALSE, value |-> "Response"],
   [threw |-> TRUE, value |-> "Error"], [threw |-> TRUE, value |-> Undefined]}

HandlerOutcomes ==
  {[threw |-> FALSE, value |-> "Response"], [threw |-> FALSE, value |-> Undefined],
   [threw |-> FALSE, value |-> "object"],
   [threw |-> TRUE, value |-> "Error"], [threw |-> TRUE, value |-> Undefined]}

\* the own members of a RequestContext once constructed
BaseMembers ==
  {"raw", "body", "params", "query", "headers", "cookies", "validateResponse",
   "handleError"}

\* no context has been extended yet
NoContext == [object |-> Null, members |-> {}, get |-> NoMwData]

ResponseData == {"10", "x", EmptyRecord}

INVALID_RESPONSE_DATA == "Invalid response data"

NoCall == [helper |-> "", status |-> 0, data |-> "", result |-> NoResponse]

\* no spec has been generated; of is the number of routes a spec was
\* generated from
NoOpenApiSpec == [spec |-> [openapi |-> "", paths |-> <<>>], of |-> -1]

\* ---------------------------------------------------------------- cache values
\* the ttl option: absent, or a number given in tenths of a millisecond
\* (NaN and Infinity apart)
NoTtl(kind) == [kind |-> kind, nan |-> FALSE, infinite |-> FALSE, tenths |-> 0]

Ttl(tenths) == [kind |-> "number", nan |-> FALSE, infinite |-> FALSE, tenths |-> tenths]

\* undefined, null, 0, 1000, -1, 0.3, NaN, Infinity
Ttls ==
  {NoTtl("undefined"), NoTtl("null"), Ttl(0), Ttl(10000), Ttl(-10), Ttl(3),
   [kind |-> "number", nan |-> TRUE, infinite |-> FALSE, tenths |-> 0],
   [kind |-> "number", nan |-> FALSE, infinite |-> TRUE, tenths |-> 0]}

CacheKeys == {"k1", "k2"}

\* the values handed to set: two strings, the number NaN, undefined, and an
\* object that refers to itself
CacheValues == {"v1", "v2", "NaN", Undefined, "circular"}

\* a key of the store: absent, or a text that expires (PX) or stays
Absent == [present |-> FALSE, text |-> "", px |-> FALSE]

EmptyStore == [k \in CacheKeys |-> Absent]

\* what is known of a key: live when a set succeeded and no delete followed,
\* expired when the store dropped the key since
NeverSet == [live |-> FALSE, value |-> "", expired |-> FALSE]

NoReply ==
  [op |-> "", key |-> "", value |-> "", fails |-> FALSE,
   result |-> ok(Undefined), before |-> EmptyStore, after |-> EmptyStore,
   was |-> NeverSet]

\* ---------------------------------------------------------------- utility values
\* the locales of an I18n and the keys asked of it; "bye" is in no locale
Locales == {"en", "es"}

TranslationKeys == {"greeting", "farewell"}

\* no I18n has been constructed
NoI18n ==
  [locales |-> [l \in Locales |-> [k \in TranslationKeys |-> Undefined]],
   defaultLocale |-> "en", currentLocale |-> "en", lastSet |-> Undefined,
   op |-> "", key |-> "", result |-> ""]

\* parseQueryString has not been called
NoQueryParse == [called |-> FALSE, entries |-> <<>>, query |-> <<>>]

\* no Logger has been constructed
NoLogging ==
  [constructed |-> FALSE, providers |-> <<>>, records |-> <<>>,
   delivered |-> <<>>, written |-> <<>>]

\* can has not been called; of is the number of rules a call looked at
NoVerdict ==
  [of |-> -1, action |-> "", entity |-> "", object |-> [given |-> FALSE, status |-> ""],
   result |-> [allowed |-> FALSE, reason |-> Undefined]]

\* validateSchema has not been called on its own
NoValidation ==
  [called |-> FALSE, schema |-> NoSchema, data |-> Undefined, result |-> ok(Undefined)]

\* no merge has been called on its own
NoMerging == [called |-> FALSE, schemas |-> <<>>, merged |-> NoRequest]

\* options, globalMiddlewares, routes, server: the fields of the Api.
\* pc .. extended: the locals of the wrappedHandler call that is running.
\* suspended: the locals of another wrappedHandler call, waiting at an await.
\* responseSchema, call: a RequestContext and the last helper called on it.
VARIABLES options, globalMiddlewares, routes, server, pc, cur, raw, parsed,
          ctx, idx, response, log, middlewareResult, members, extended, suspended,
          responseSchema, call,
          merging, openApiSpec, validation, rules, verdict,
          cacheOptions, redis, reply, history,
          i18n, queryParse, started, logging

vars == <<options, globalMiddlewares, routes, server, pc, cur, raw, parsed,
          ctx, idx, response, log, middlewareResult, members, extended, suspended,
          responseSchema, call,
          merging, openApiSpec, validation, rules, verdict,
          cacheOptions, redis, reply, history,
          i18n, queryParse, started, logging>>

config == <<options, globalMiddlewares, routes, server, started>>

helper == <<responseSchema, call>>

\* the utilities beside the pipeline: schema merging, the OpenAPI generator
\* and validateSchema called on their own; a Policy; a Cache over a store
library ==
  <<merging, openApiSpec, validation, rules, verdict, cacheOptions, redis,
    reply, history, i18n, queryParse, logging>>

\* ---------------------------------------------------------------- pure parts
\* a slot once set is never overwritten
mergeRequestSchemas_FirstWins(schemas) ==
  [f \in SlotSet |->
     LET declaring == {i \in 1..Len(schemas) : schemas[i][f] # NoSchema}
     IN IF declaring = {} THEN NoSchema
        ELSE schemas[CHOOSE i \in declaring : \A j \in declaring : i <= j][f]]

mergeRequestSchemas(schemas) ==
  [f \in SlotSet |->
     LET declaring == {i \in 1..Len(schemas) : schemas[i][f] # NoSchema}
     IN IF declaring = {} THEN NoSchema
        ELSE schemas[CHOOSE i \in declaring : \A j \in declaring : j <= i][f]]

\* the length of the longest run of \w characters of s from position i
RECURSIVE WordRun(_, _)
WordRun(s, i) ==
  IF i > Len(s) \/ s[i] \in NonWord THEN 0 ELSE 1 + WordRun(s, i + 1)

\* fullPath.replace(/\{(\w+)\}/g, ":$1")
RECURSIVE convertPathToBunFormat(_)
convertPathToBunFormat(s) ==
  IF s = <<>> THEN <<>>
  ELSE LET n == WordRun(s, 2)
       IN IF s[1] = "{" /\ n > 0 /\ Len(s) >= n + 2 /\ s[n + 2] = "}"
            THEN <<":">> \o SubSeq(s, 2, n + 1)
                 \o convertPathToBunFormat(SubSeq(s, n + 3, Len(s)))
          ELSE <<s[1]>> \o convertPathToBunFormat(Tail(s))

\* path.replace(/:(\w+)/g, "{$1}")
RECURSIVE convertPathToOpenApi(_)
convertPathToOpenApi(s) ==
  IF s = <<>> THEN <<>>
  ELSE LET n == WordRun(s, 2)
       IN IF s[1] = ":" /\ n > 0
            THEN <<"{">> \o SubSeq(s, 2, n + 1) \o <<"}">>
                 \o convertPathToOpenApi(SubSeq(s, n + 2, Len(s)))
          ELSE <<s[1]>> \o convertPathToOpenApi(Tail(s))

\* what toOpenAPISchema makes of a schema. "ids" is z.object({a:
\* z.string()}), "optional" is z.object({a: z.string().optional()}), "search"
\* is z.object({q: z.string(), limit: z.string().optional()}); the other
\* schemas are no object schemas
toOpenAPISchema(schema) ==
  IF schema = "ids" THEN [type |-> "object", properties |-> <<"a">>, required |-> {"a"}]
  ELSE IF schema = "optional" THEN [type |-> "object", properties |-> <<"a">>]
  ELSE IF schema = "search"
    THEN [type |-> "object", properties |-> <<"q", "limit">>, required |-> {"q"}]
  ELSE [type |-> "string"]

\* a path parameter is required only when the schema requires it
addSchemaParameters_InheritsRequired(schema, location, parameters) ==
  LET openApiSchema == toOpenAPISchema(schema)
  IN IF "properties" \notin DOMAIN openApiSchema THEN parameters
     ELSE parameters \o
          [i \in 1..Len(openApiSchema.properties) |->
             LET name == openApiSchema.properties[i]
                 required == /\ "required" \in DOMAIN openApiSchema
                             /\ name \in openApiSchema.required
             IN [name |-> name, in |-> location, required |-> required]]

addSchemaParameters(schema, location, parameters) ==
  LET openApiSchema == toOpenAPISchema(schema)
  IN IF "properties" \notin DOMAIN openApiSchema THEN parameters
     ELSE parameters \o
          [i \in 1..Len(openApiSchema.properties) |->
             LET name == openApiSchema.properties[i]
                 required == /\ "required" \in DOMAIN openApiSchema
                             /\ name \in openApiSchema.required
             IN [name |-> name, in |-> location,
                 required |-> IF location = "path" THEN TRUE ELSE required]]

toLowerCase(method) ==
  IF method = "GET" THEN "get"
  ELSE IF method = "POST" THEN "post"
  ELSE method

\* the operation generateOpenApiSpec builds for a route
Operation(route) ==
  LET req == route.mergedRequest
      inPath == IF req.params # NoSchema
                  THEN addSchemaParameters(req.params, "path", <<>>) ELSE <<>>
      inQuery == IF req.query # NoSchema
                   THEN addSchemaParameters(req.query, "query", inPath) ELSE inPath
      inHeader == IF req.headers # NoSchema
                    THEN addSchemaParameters(req.headers, "header", inQuery)
                  ELSE inQuery
      inCookie == IF req.cookies # NoSchema
                    THEN addSchemaParameters(req.cookies, "cookie", inHeader)
                  ELSE inHeader
      operation ==
        [operationId |-> route.operationId, summary |-> route.summary,
         description |-> route.description, tags |-> route.tags,
         parameters |-> inCookie,
         responses |->
           [status \in {t \in Statuses : route.mergedResponse[t] # NoSchema} |->
              [description |-> status,
               schema |-> toOpenAPISchema(route.mergedResponse[status])]]]
  IN IF req.body # NoSchema
       THEN operation @@ ("requestBody" :>
              [required |-> TRUE, schema |-> toOpenAPISchema(req.body)])
     ELSE operation

\* the entry of a path is made anew for every route
RECURSIVE AddRoutes_FreshEntry(_, _, _)
AddRoutes_FreshEntry(paths, rs, i) ==
  IF i > Len(rs) THEN paths
  ELSE LET openapiPath == convertPathToOpenApi(rs[i].path)
       IN AddRoutes_FreshEntry(
            (openapiPath :> (toLowerCase(rs[i].method) :> Operation(rs[i])))
              @@ paths,
            rs, i + 1)

\* the loop of generateOpenApiSpec from route i on
RECURSIVE AddRoutes(_, _, _)
AddRoutes(paths, rs, i) ==
  IF i > Len(rs) THEN paths
  ELSE LET openapiPath == convertPathToOpenApi(rs[i].path)
           entry == IF openapiPath \in DOMAIN paths THEN paths[openapiPath] ELSE <<>>
       IN AddRoutes(
            (openapiPath :> ((toLowerCase(rs[i].method) :> Operation(rs[i])) @@ entry))
              @@ paths,
            rs, i + 1)

generateOpenApiSpec(rs, opts) ==
  [openapi |-> "3.0.3", paths |-> AddRoutes(<<>>, rs, 1)]

\* Object.assign of every contract onto one record, in order
mergeResponseSchemas(schemas) ==
  [s \in Statuses |->
     LET declaring == {i \in 1..Len(schemas) : schemas[i][s] # NoSchema}
     IN IF declaring = {} THEN NoSchema
        ELSE schemas[CHOOSE i \in declaring : \A j \in declaring : j <= i][s]]

allMiddlewares(globals, own) == globals \o own

\* a body that cannot be parsed is taken as absent
parseBody_SwallowsError(req, hasBodySchema) ==
  IF ~hasBodySchema THEN [error |-> NoResponse, body |-> Undefined]
  ELSE IF req.contentType # "application/json"
    THEN [error |-> NoResponse, body |-> Undefined]
  ELSE IF req.bodyText = "malformed"
    THEN [error |-> NoResponse, body |-> Undefined]
  ELSE [error |-> NoResponse, body |-> req.bodyText]

\* the content type is not looked at
parseBody_AnyContentType(req, hasBodySchema) ==
  IF ~hasBodySchema THEN [error |-> NoResponse, body |-> Undefined]
  ELSE IF req.bodyText = "malformed"
    THEN [error |-> ResponseJson("Invalid JSON body", 400), body |-> Null]
  ELSE [error |-> NoResponse, body |-> req.bodyText]

\* contentType "application/json" stands for every content type that
\* includes it, bodyText "malformed" for every text req.json() rejects
parseBody(req, hasBodySchema) ==
  IF ~hasBodySchema THEN [error |-> NoResponse, body |-> Undefined]
  ELSE IF req.contentType # "application/json"
    THEN [error |-> NoResponse, body |-> Undefined]
  ELSE IF req.bodyText = "malformed"
    THEN [error |-> ResponseJson("Invalid JSON body", 400), body |-> Null]
  ELSE [error |-> NoResponse, body |-> req.bodyText]

\* the headers are materialized whether or not a schema asks for them
extractHeaders_Always(req, hasHeaderSchema) == req.headers

extractHeaders(req, hasHeaderSchema) ==
  IF ~hasHeaderSchema THEN EmptyRecord ELSE req.headers

\* the Response of a failed body parse, or the parsed data
parseRequest(req, schema) ==
  LET b == parseBody(req, schema["body"] # NoSchema)
  IN IF IsResponse(b.error) THEN [error |-> b.error, data |-> NoData]
     ELSE [error |-> NoResponse,
           data |-> [body |-> b.body, params |-> req.params,
                     query |-> req.query,
                     headers |-> extractHeaders(req, schema["headers"] # NoSchema),
                     cookies |-> req.cookies]]

\* only the first declared field is looked at
Declared_FirstOnly(schema) ==
  {i \in 1..Len(Slots) :
     /\ schema[Slots[i]] # NoSchema
     /\ \A j \in 1..(i - 1) : schema[Slots[j]] = NoSchema}

\* positions in Slots of the fields a contract declares
Declared(schema) == {i \in 1..Len(Slots) : schema[Slots[i]] # NoSchema}

\* the fields whose validate() throws: nothing between validateSchema and
\* wrappedHandler catches it
Throwing(data, schema) ==
  {i \in Declared(schema) : Throws(schema[Slots[i]], data[Slots[i]])}

Failing(data, schema) ==
  {i \in Declared(schema) \ Throwing(data, schema) :
     validateSchema(schema[Slots[i]], data[Slots[i]]).error # NoError}

\* the loop goes on to the last failing field
FirstFailing_Last(data, schema) ==
  LET stops == Failing(data, schema) \cup Throwing(data, schema)
  IN CHOOSE i \in stops : \A j \in stops : i >= j

\* the first field at which the loop stops: an error result or an exception
FirstFailing(data, schema) ==
  LET stops == Failing(data, schema) \cup Throwing(data, schema)
  IN CHOOSE i \in stops : \A j \in stops : i <= j

\* the positions validateSchema is called for, in order: the loop returns at
\* the first failing field
ValidatedSlots(data, schema) ==
  IF Failing(data, schema) \cup Throwing(data, schema) = {} THEN Declared(schema)
  ELSE {i \in Declared(schema) : i <= FirstFailing(data, schema)}

\* the failure of a field is dropped
validateRequestFields_NeverFails(data, schema) ==
  [error |-> NoResponse, data |-> data]

\* a 400 Response, or the data it was given; an exception of validate()
\* leaves through the caller
validateRequestFields(data, schema) ==
  IF Failing(data, schema) \cup Throwing(data, schema) = {}
    THEN [error |-> NoResponse, data |-> data]
  ELSE IF FirstFailing(data, schema) \in Throwing(data, schema)
    THEN [error |-> Rejection("SyntaxError", "validate"), data |-> NoData]
  ELSE [error |-> ResponseJson(
                    validateSchema(schema[Slots[FirstFailing(data, schema)]],
                                   data[Slots[FirstFailing(data, schema)]]).error.message,
                    400),
        data |-> NoData]

createBaseContext(validatedData) == validatedData

\* a Response returned by the middleware is merged like a data record
middlewareStep_MergesResponse(outcome, k) ==
  LET r == mightThrow(outcome)
  IN IF Truthy(r.error)
       THEN [next |-> "return", response |-> ResponseJson(INTERNAL_SERVER_ERROR, 500)]
     ELSE [next |-> "continue", response |-> NoResponse]

\* one iteration of the loop of executeMiddlewares, after validation passed:
\* "return" with a Response, or "continue"
middlewareStep(outcome, k) ==
  LET r == mightThrow(outcome)
  IN IF Truthy(r.error)
       THEN [next |-> "return", response |-> ResponseJson(INTERNAL_SERVER_ERROR, 500)]
     ELSE IF r.data = "Response"
       THEN [next |-> "return", response |-> UserValue(r.data, "mw", k)]
     ELSE [next |-> "continue", response |-> NoResponse]

\* the second writer of a key is ignored
ObjectAssign_KeepsFirst(target, source) ==
  [k \in Keys |-> IF k \in DOMAIN source /\ target[k] = Undefined
                    THEN source[k] ELSE target[k]]

\* Object.assign(data, result) on the record of contributed data
ObjectAssign(target, source) ==
  [k \in Keys |-> IF k \in DOMAIN source THEN source[k] ELSE target[k]]

\* the extended context is a new object; the base context is left alone
extendContext_Copies(baseMembers, middlewareData) ==
  [base |-> baseMembers,
   extended |-> [object |-> "view", members |-> baseMembers \cup {"get"},
                 get |-> middlewareData]]

\* Object.assign(baseContext, {get}): the members of the base context after
\* the call, and the object the call returns
extendContext(baseMembers, middlewareData) ==
  [base |-> baseMembers \cup {"get"},
   extended |-> [object |-> "baseContext", members |-> baseMembers \cup {"get"},
                 get |-> middlewareData]]

\* the schema of the status is not looked up: every value passes
validateResponseFn_PassThrough(schemas, status, d) == ok(d)

\* a status without schema is checked against the schema of status 200
validateResponseFn_FallsBackTo200(schemas, status, d) ==
  validateSchema(IF schemas[status] = NoSchema THEN schemas[200] ELSE schemas[status], d)

validateResponseFn(schemas, status, d) == validateSchema(schemas[status], d)

\* an ApiError: context is a record that may hold a statusCode
ApiError(type, message, context) ==
  [type |-> type, message |-> message, context |-> context]

handleErrorFn(e) ==
  ResponseJson(e.message,
               IF "statusCode" \in DOMAIN e.context THEN e.context.statusCode
               ELSE 500)

\* the error hook of the Api with an error hook: "responds" returns a
\* Response, "throws" raises, "returns" hands back something else
Hooks == {"responds", "throws", "returns"}

HookResponse ==
  [kind |-> "Response", status |-> 418, body |-> "hook", by |-> "hook", at |-> 0]

defaultErrorHandler(e) ==
  ResponseJson(e.message,
               IF "statusCode" \in DOMAIN e.context THEN e.context.statusCode
               ELSE 500)

\* Api.handleError of the Api with an error hook
handleError(handler, e) ==
  IF handler = Null THEN defaultErrorHandler(e)
  ELSE IF handler = "responds" THEN HookResponse
  ELSE defaultErrorHandler(ApiError("InternalServerError", INTERNAL_SERVER_ERROR,
                                    [statusCode |-> 500]))

\* the Response a helper of the context builds
HelperResponse(by, status, body) ==
  [kind |-> "Response", status |-> status, body |-> body, by |-> by, at |-> 0]

\* the error of the validation is ignored and the data is sent as it is
json_IgnoresError(schemas, status, d) == HelperResponse("json", status, d)

\* Response.json(data, {status}) serializes the data: it throws on a value
\* JSON.stringify throws on, such as an object that refers to itself
ResponseDotJson(value, status) ==
  IF value = "circular" THEN Rejection("TypeError", "json")
  ELSE HelperResponse("json", status, value)

json(schemas, status, d) ==
  LET v == validateResponseFn(schemas, status, d)
  IN IF v.error # NoError
       THEN handleErrorFn(ApiError("InternalServerError", INVALID_RESPONSE_DATA,
                                   [statusCode |-> 500]))
     ELSE ResponseDotJson(v.value, status)

text(status, t) == HelperResponse("text", status, t)

html(status, h) == HelperResponse("html", status, h)

redirect(status, url) ==
  IF status \in RedirectStatuses THEN HelperResponse("redirect", status, "")
  ELSE Rejection("RangeError", "redirect")

\* c.get as the code holding context members sees it
GetOf(ms) == IF "get" \in ms THEN "function" ELSE Undefined

executeHandler(outcome) ==
  LET r == mightThrow(outcome)
  IN IF Truthy(r.error) \/ ~Truthy(r.data)
       THEN ResponseJson(INTERNAL_SERVER_ERROR, 500)
     ELSE UserValue(r.data, "handler", 0)

\* ---------------------------------------------------------------- history
Event(ev, who, field, data, out, threw) ==
  [ev |-> ev, who |-> who, field |-> field, data |-> data, out |-> out,
   threw |-> threw]

RECURSIVE ValidationEvents(_, _, _, _)
ValidationEvents(who, data, schema, i) ==
  IF i > Len(Slots) THEN <<>>
  ELSE IF i \in ValidatedSlots(data, schema)
    THEN <<Event("validate", who, Slots[i], data[Slots[i]],
                 IF i \in Throwing(data, schema) THEN "throw"
                 ELSE IF i \in Failing(data, schema) THEN "fail" ELSE "ok",
                 i \in Throwing(data, schema))>>
         \o ValidationEvents(who, data, schema, i + 1)
  ELSE ValidationEvents(who, data, schema, i + 1)

\* ---------------------------------------------------------------- state machine
\* the locals of a wrappedHandler call that has not started
IdleRequest ==
  [pc |-> "idle", cur |-> 0, raw |-> NoRaw, parsed |-> NoData, ctx |-> NoData,
   idx |-> 0, response |-> NoResponse, log |-> <<>>, middlewareResult |-> NoMwData,
   members |-> {}, extended |-> NoContext]

\* the Api after construction, no request received
InitApi ==
  /\ globalMiddlewares = <<>>
  /\ routes = <<>>
  /\ server = Null
  /\ started = <<>>
  /\ pc = "idle"
  /\ cur = 0
  /\ raw = NoRaw
  /\ parsed = NoData
  /\ ctx = NoData
  /\ idx = 0
  /\ response = NoResponse
  /\ log = <<>>
  /\ middlewareResult = NoMwData
  /\ members = {}
  /\ extended = NoContext
  /\ suspended = IdleRequest
  /\ call = NoCall

\* the utilities before anything was called on them
InitLibrary ==
  /\ merging = NoMerging
  /\ openApiSpec = NoOpenApiSpec
  /\ validation = NoValidation
  /\ rules = <<>>
  /\ verdict = NoVerdict
  /\ cacheOptions = [ttl |-> NoTtl("undefined")]
  /\ redis = EmptyStore
  /\ reply = NoReply
  /\ history = [k \in CacheKeys |-> NeverSet]
  /\ i18n = NoI18n
  /\ queryParse = NoQueryParse
  /\ logging = NoLogging

Init ==
  /\ InitApi
  /\ InitLibrary
  /\ options = [onError |-> Null, prefix |-> <<>>]
  /\ responseSchema = NoResponseSchema

request ==
  <<pc, cur, raw, parsed, ctx, idx, response, log, middlewareResult,
    members, extended>>

\* api.use(middleware)
use(m) ==
  /\ Len(globalMiddlewares) < MaxGlobal
  /\ globalMiddlewares' = Append(globalMiddlewares, m)
  /\ UNCHANGED <<options, routes, server, started, request, suspended, helper,
                 library>>

defineRoute(definition) ==
  /\ LET fullPath == options.prefix \o definition.path
         bunPath == convertPathToBunFormat(fullPath)
         all == allMiddlewares(globalMiddlewares, definition.middlewares)
         merged == mergeRequestSchemas(
                     [i \in 1..Len(all) |-> MwRequest(all[i])]
                     \o <<definition.request>>)
         mergedResponse == mergeResponseSchemas(
                             [i \in 1..Len(all) |-> MwResponse(all[i])]
                             \o <<definition.response>>)
     IN routes' = Append(routes,
          [path |-> bunPath,
           method |-> definition.method,
           template |-> definition.path,
           operationId |-> definition.operationId,
           summary |-> definition.summary,
           description |-> definition.description,
           tags |-> definition.tags,
           request |-> definition.request,
           response |-> definition.response,
           middlewares |-> definition.middlewares,
           allMiddlewares |-> all,
           mergedRequest |-> merged,
           mergedResponse |-> mergedResponse])
  /\ UNCHANGED <<options, globalMiddlewares, server, started, request, suspended,
                 helper, library>>

\* the loop of listen over the routes from position i on:
\* bunRoutes[path][method] = handler, the handler named by its route
RECURSIVE BunRoutes(_, _, _)
BunRoutes(bunRoutes, rs, i) ==
  IF i > Len(rs) THEN bunRoutes
  ELSE BunRoutes((<<rs[i].path, rs[i].method>> :> i) @@ bunRoutes, rs, i + 1)

\* the ports of the servers that are running
PortsInUse == {started[i].port : i \in {j \in 1..Len(started) : started[j].running}}

\* api.listen(port): Bun.serve throws when the port is taken, and this.server
\* stays what it was; otherwise this.server is the server just started
listen(port) ==
  /\ IF port \in PortsInUse
       THEN UNCHANGED <<server, started>>
     ELSE /\ started' = Append(started,
                           [port |-> port, routes |-> BunRoutes(<<>>, routes, 1),
                            running |-> TRUE])
          /\ server' = "running"
  /\ UNCHANGED <<options, globalMiddlewares, routes, request, suspended, helper, library>>

\* api.close(): this.server is the server the last successful listen started
close ==
  /\ IF server # Null
       THEN /\ started' = [started EXCEPT ![Len(started)].running = FALSE]
            /\ server' = Null
     ELSE UNCHANGED <<server, started>>
  /\ UNCHANGED <<options, globalMiddlewares, routes, request, suspended, helper, library>>

\* the transport of the server held hands a request of route r to its handler
Dispatches(r) ==
  /\ server = "running"
  /\ <<routes[r].path, routes[r].method>> \in DOMAIN started[Len(started)].routes
  /\ started[Len(started)].routes[<<routes[r].path, routes[r].method>>] = r

\* the transport dispatches a request to route r; wrappedHandler parses it
ParseRequest(r, req) ==
  /\ Dispatches(r)
  /\ pc = "idle"
  /\ LET p == parseRequest(req, routes[r].mergedRequest)
     IN /\ cur' = r
        /\ raw' = req
        /\ log' = <<Event("parse", 0, "", "", IF IsResponse(p.error) THEN "fail" ELSE "ok", FALSE)>>
        /\ IF IsResponse(p.error)
             THEN /\ response' = p.error
                  /\ pc' = "done"
                  /\ parsed' = NoData
             ELSE /\ response' = NoResponse
                  /\ pc' = "validate"
                  /\ parsed' = p.data
  /\ UNCHANGED <<config, ctx, idx, middlewareResult, members, extended,
               suspended, helper, library>>

\* route-level validation and construction of the base context
ValidateRoute ==
  /\ pc = "validate"
  /\ LET v == validateRequestFields(parsed, routes[cur].request)
     IN /\ log' = log \o ValidationEvents(0, parsed, routes[cur].request, 1)
        /\ IF IsResponse(v.error) \/ IsRejection(v.error)
             THEN /\ response' = v.error
                  /\ pc' = "done"
                  /\ UNCHANGED <<ctx, idx, members, middlewareResult>>
             ELSE /\ ctx' = createBaseContext(v.data)
                  /\ members' = BaseMembers
                  /\ middlewareResult' = NoMwData
                  /\ idx' = 1
                  /\ pc' = IF Len(routes[cur].allMiddlewares) = 0
                             THEN "handler" ELSE "middleware"
                  /\ UNCHANGED response
  /\ UNCHANGED <<config, cur, raw, parsed, extended, suspended, helper, library>>

\* every middleware is guarded by the merged contract of the route instead of
\* its own
ExecuteMiddleware_ValidatesMerged(outcome) ==
  /\ pc = "middleware"
  /\ LET m == routes[cur].allMiddlewares[idx]
         v == validateRequestFields(parsed, routes[cur].mergedRequest)
         events == ValidationEvents(idx, parsed, routes[cur].mergedRequest, 1)
         s == middlewareStep(outcome, idx)
     IN IF IsResponse(v.error) \/ IsRejection(v.error)
          THEN /\ log' = log \o events
               /\ response' = v.error
               /\ pc' = "done"
               /\ UNCHANGED <<idx, middlewareResult>>
          ELSE /\ log' = log \o events
                         \o <<Event("mw", idx, m, GetOf(members), outcome.value, outcome.threw)>>
               /\ IF s.next = "return"
                    THEN /\ response' = s.response
                         /\ pc' = "done"
                         /\ UNCHANGED <<idx, middlewareResult>>
                    ELSE /\ idx' = idx + 1
                         /\ middlewareResult' =
                              IF outcome.threw THEN middlewareResult
                              ELSE ObjectAssign(middlewareResult, MwData(m, ctx))
                         /\ pc' = IF idx = Len(routes[cur].allMiddlewares)
                                    THEN "handler" ELSE "middleware"
                         /\ UNCHANGED response
  /\ UNCHANGED <<config, cur, raw, parsed, ctx, members, extended, suspended, helper, library>>

\* one iteration of the loop of executeMiddlewares
ExecuteMiddleware(outcome) ==
  /\ pc = "middleware"
  /\ LET m == routes[cur].allMiddlewares[idx]
         v == validateRequestFields(parsed, MwRequest(m))
         events == ValidationEvents(idx, parsed, MwRequest(m), 1)
         s == middlewareStep(outcome, idx)
     IN IF IsResponse(v.error) \/ IsRejection(v.error)
          THEN /\ log' = log \o events
               /\ response' = v.error
               /\ pc' = "done"
               /\ UNCHANGED <<idx, middlewareResult>>
          ELSE /\ log' = log \o events
                         \o <<Event("mw", idx, m, GetOf(members), outcome.value, outcome.threw)>>
               /\ IF s.next = "return"
                    THEN /\ response' = s.response
                         /\ pc' = "done"
                         /\ UNCHANGED <<idx, middlewareResult>>
                    ELSE /\ idx' = idx + 1
                         /\ middlewareResult' =
                              IF outcome.threw THEN middlewareResult
                              ELSE ObjectAssign(middlewareResult, MwData(m, ctx))
                         /\ pc' = IF idx = Len(routes[cur].allMiddlewares)
                                    THEN "handler" ELSE "middleware"
                         /\ UNCHANGED response
  /\ UNCHANGED <<config, cur, raw, parsed, ctx, members, extended, suspended, helper, library>>

\* extendContext, then executeHandler
ExecuteHandler(outcome) ==
  /\ pc = "handler"
  /\ LET e == extendContext(members, middlewareResult)
     IN /\ members' = e.base
        /\ extended' = e.extended
        /\ log' = Append(log, Event("handler", 0, "", GetOf(e.extended.members),
                                    outcome.value, outcome.threw))
  /\ response' = executeHandler(outcome)
  /\ pc' = "done"
  /\ UNCHANGED <<config, cur, raw, parsed, ctx, idx, middlewareResult, suspended,
               helper, library>>

\* the transport sends the response; the per-request values are dropped
Respond ==
  /\ pc = "done"
  /\ pc' = "idle"
  /\ cur' = 0
  /\ raw' = NoRaw
  /\ parsed' = NoData
  /\ ctx' = NoData
  /\ idx' = 0
  /\ response' = NoResponse
  /\ log' = <<>>
  /\ middlewareResult' = NoMwData
  /\ members' = {}
  /\ extended' = NoContext
  /\ UNCHANGED <<config, suspended, helper, library>>

Next ==
  \/ \E m \in Mw : server = Null /\ use(m)
  \/ \E d \in RouteDefinitions :
       server = Null /\ Len(routes) < MaxRoutes /\ defineRoute(d)
  \/ server = Null /\ listen(3000)
  \/ \E r \in 1..Len(routes), req \in RawRequests : ParseRequest(r, req)
  \/ ValidateRoute
  \/ \E o \in MwOutcomes : ExecuteMiddleware(o)
  \/ \E o \in HandlerOutcomes : ExecuteHandler(o)
  \/ Respond

Spec == Init /\ [][Next]_vars

\* ---------------------------------------------------------------- throwing schema
\* an application whose contracts hold a schema with a throwing transform: a
\* route that declares it itself and a route behind a middleware declaring it
ThrowingDefinitions ==
  {Undocumented(d) : d \in
  {[request |-> RequestOf([query |-> "json"]),
    response |-> ResponseOf(200 :> "str"), middlewares |-> <<>>],
   [request |-> NoRequest, response |-> ResponseOf(200 :> "str"),
    middlewares |-> <<"filter">>]}}

NextThrowingSchema ==
  \/ \E m \in {"filter"} : server = Null /\ use(m)
  \/ \E d \in ThrowingDefinitions :
       server = Null /\ Len(routes) < MaxRoutes /\ defineRoute(d)
  \/ server = Null /\ listen(3000)
  \/ \E r \in 1..Len(routes), req \in RawRequests : ParseRequest(r, req)
  \/ ValidateRoute
  \/ \E o \in MwOutcomes : ExecuteMiddleware(o)
  \/ \E o \in HandlerOutcomes : ExecuteHandler(o)
  \/ Respond

SpecThrowingSchema == Init /\ [][NextThrowingSchema]_vars


\* ---------------------------------------------------------------- parsing
\* an application whose body and headers schemas are declared by the route,
\* by a middleware at the start or at the end of the chain, or by nobody
ParseDefinitions ==
  {Undocumented(d) : d \in
  {[request |-> NoRequest, response |-> ResponseOf(200 :> "str"),
    middlewares |-> <<>>],
   [request |-> RequestOf([body |-> "str"]), response |-> ResponseOf(200 :> "str"),
    middlewares |-> <<"auth">>],
   [request |-> NoRequest, response |-> ResponseOf(200 :> "str"),
    middlewares |-> <<"log", "upload">>],
   [request |-> RequestOf([headers |-> "str"]), response |-> ResponseOf(200 :> "str"),
    middlewares |-> <<"upload", "log">>]}}

ParseRequests ==
  {[params |-> "x", query |-> "10", headers |-> h, cookies |-> "10",
    contentType |-> b.contentType, bodyText |-> b.bodyText] :
     h \in {"10", "x"}, b \in RawBodies}

NextParse ==
  \/ \E m \in {"upload", "log"} : server = Null /\ use(m)
  \/ \E d \in ParseDefinitions :
       server = Null /\ Len(routes) < MaxRoutes /\ defineRoute(d)
  \/ server = Null /\ listen(3000)
  \/ \E r \in 1..Len(routes), req \in ParseRequests : ParseRequest(r, req)
  \/ ValidateRoute
  \/ \E o \in {[threw |-> FALSE, value |-> "data"],
               [threw |-> FALSE, value |-> "Response"]} : ExecuteMiddleware(o)
  \/ \E o \in {[threw |-> FALSE, value |-> "Response"],
               [threw |-> TRUE, value |-> "Error"]} : ExecuteHandler(o)
  \/ Respond

SpecParse == Init /\ [][NextParse]_vars

\* ---------------------------------------------------------------- enforced schemas
\* an application whose middleware declares the headers and cookies slots:
\* a route that declares the headers slot too, a route that does not, and a
\* route that meets the middleware only when it is registered for all routes
EnforcedDefinitions ==
  {Undocumented(d) : d \in
  {[request |-> RequestOf([headers |-> "optional"]),
    response |-> ResponseOf(200 :> "str"), middlewares |-> <<"session">>],
   [request |-> NoRequest, response |-> ResponseOf(200 :> "str"),
    middlewares |-> <<"session">>],
   [request |-> RequestOf([cookies |-> "optional"]),
    response |-> ResponseOf(200 :> "str"), middlewares |-> <<>>]}}

EnforcedRequests ==
  {[params |-> "x", query |-> "10", headers |-> h, cookies |-> c,
    contentType |-> "text/plain", bodyText |-> "x"] :
     h \in {"{}", "{a}", "{q}", "{a,q}"}, c \in {"{}", "{a}"}}

NextEnforced ==
  \/ \E m \in {"session", "log"} : server = Null /\ use(m)
  \/ \E d \in EnforcedDefinitions :
       server = Null /\ Len(routes) < MaxRoutes /\ defineRoute(d)
  \/ server = Null /\ listen(3000)
  \/ \E r \in 1..Len(routes), req \in EnforcedRequests : ParseRequest(r, req)
  \/ ValidateRoute
  \/ \E o \in {[threw |-> FALSE, value |-> "data"],
               [threw |-> FALSE, value |-> "Response"]} : ExecuteMiddleware(o)
  \/ \E o \in {[threw |-> FALSE, value |-> "Response"],
               [threw |-> TRUE, value |-> "Error"]} : ExecuteHandler(o)
  \/ Respond

SpecEnforced == Init /\ [][NextEnforced]_vars

\* ---------------------------------------------------------------- concurrent requests
\* the locals of the wrappedHandler call that is running
Running ==
  [pc |-> pc, cur |-> cur, raw |-> raw, parsed |-> parsed, ctx |-> ctx,
   idx |-> idx, response |-> response, log |-> log,
   middlewareResult |-> middlewareResult, members |-> members,
   extended |-> extended]

\* the accumulated middleware data is one record for all calls
Yield_SharedData ==
  /\ server = "running"
  /\ pc # "idle" \/ suspended.pc # "idle"
  /\ suspended' = Running
  /\ pc' = suspended.pc
  /\ cur' = suspended.cur
  /\ raw' = suspended.raw
  /\ parsed' = suspended.parsed
  /\ ctx' = suspended.ctx
  /\ idx' = suspended.idx
  /\ response' = suspended.response
  /\ log' = suspended.log
  /\ members' = suspended.members
  /\ extended' = suspended.extended
  /\ UNCHANGED <<config, helper, library, middlewareResult>>

\* the running call waits at an await (or has not started) and the other
\* call goes on: each call keeps its own locals
Yield ==
  /\ server = "running"
  /\ pc # "idle" \/ suspended.pc # "idle"
  /\ suspended' = Running
  /\ pc' = suspended.pc
  /\ cur' = suspended.cur
  /\ raw' = suspended.raw
  /\ parsed' = suspended.parsed
  /\ ctx' = suspended.ctx
  /\ idx' = suspended.idx
  /\ response' = suspended.response
  /\ log' = suspended.log
  /\ middlewareResult' = suspended.middlewareResult
  /\ members' = suspended.members
  /\ extended' = suspended.extended
  /\ UNCHANGED <<config, helper, library>>

\* an application with a data-contributing middleware on its route, and two
\* requests that differ in what the middleware contributes
ConcurrentDefinitions ==
  {Undocumented(d) : d \in
  {[request |-> NoRequest, response |-> ResponseOf(200 :> "str"),
    middlewares |-> <<"log">>]}}

ConcurrentRequests ==
  {[params |-> "x", query |-> q, headers |-> "10", cookies |-> "10",
    contentType |-> "application/json", bodyText |-> "x"] : q \in {"10", "x"}}

NextConcurrent ==
  \/ \E m \in {"auth"} : server = Null /\ use(m)
  \/ \E d \in ConcurrentDefinitions :
       server = Null /\ Len(routes) < MaxRoutes /\ defineRoute(d)
  \/ server = Null /\ listen(3000)
  \/ \E r \in 1..Len(routes), req \in ConcurrentRequests : ParseRequest(r, req)
  \/ ValidateRoute
  \/ \E o \in {[threw |-> FALSE, value |-> "data"],
               [threw |-> FALSE, value |-> "Response"]} : ExecuteMiddleware(o)
  \/ \E o \in {[threw |-> FALSE, value |-> "Response"],
               [threw |-> TRUE, value |-> "Error"]} : ExecuteHandler(o)
  \/ Respond
  \/ Yield

SpecConcurrent == Init /\ [][NextConcurrent]_vars

\* ---------------------------------------------------------------- error hook
\* the Api constructed with an onError option
InitHook ==
  /\ InitApi
  /\ InitLibrary
  /\ options \in [onError : Hooks, prefix : {<<>>}]
  /\ responseSchema = NoResponseSchema

SpecHook == InitHook /\ [][Next]_vars

\* ---------------------------------------------------------------- response helpers
\* a RequestContext built over some response contract, and the helper calls
\* a handler makes on it
InitContext ==
  /\ InitApi
  /\ InitLibrary
  /\ options = [onError |-> Null, prefix |-> <<>>]
  /\ responseSchema \in ResponseContracts

CallJson(status, d) ==
  /\ call' = [helper |-> "json", status |-> status, data |-> d,
              result |-> json(responseSchema, status, d)]
  /\ UNCHANGED <<config, request, suspended, responseSchema, library>>

CallText(status, d) ==
  /\ call' = [helper |-> "text", status |-> status, data |-> d,
              result |-> text(status, d)]
  /\ UNCHANGED <<config, request, suspended, responseSchema, library>>

CallHtml(status, d) ==
  /\ call' = [helper |-> "html", status |-> status, data |-> d,
              result |-> html(status, d)]
  /\ UNCHANGED <<config, request, suspended, responseSchema, library>>

CallRedirect(status, d) ==
  /\ call' = [helper |-> "redirect", status |-> status, data |-> d,
              result |-> redirect(status, d)]
  /\ UNCHANGED <<config, request, suspended, responseSchema, library>>

\* validateSchema(schema, data) called on its own
Validate(schema, data) ==
  /\ validation' = [called |-> TRUE, schema |-> schema, data |-> data,
                    result |-> validateSchema(schema, data)]
  /\ UNCHANGED <<config, request, suspended, helper, i18n, queryParse, logging,
                 merging, openApiSpec,
                 rules, verdict, cacheOptions, redis, reply, history>>

NextContext ==
  \/ \E schema \in SchemaSet \cup {NoSchema, NotASchema},
        d \in ResponseData \cup {Undefined, Null} : Validate(schema, d)
  \/ \E status \in Statuses, d \in ResponseData \cup {"circular"} : CallJson(status, d)
  \/ \E status \in Statuses, d \in ResponseData : CallText(status, d)
  \/ \E status \in Statuses, d \in ResponseData : CallHtml(status, d)
  \/ \E status \in Statuses, d \in ResponseData : CallRedirect(status, d)

SpecContext == InitContext /\ [][NextContext]_vars

\* ---------------------------------------------------------------- merging contracts
\* request contracts that declare the same slots with different schemas
MergeContracts ==
  {NoRequest, RequestOf([query |-> "num"]),
   RequestOf([query |-> "str", body |-> "str"])}

RECURSIVE SeqsOver(_, _)
SeqsOver(S, n) ==
  IF n = 0 THEN {<<>>}
  ELSE LET shorter == SeqsOver(S, n - 1)
       IN shorter \cup {Append(q, x) : q \in {t \in shorter : Len(t) = n - 1}, x \in S}

\* mergeRequestSchemas(...schemas) called on its own
MergeRequest(schemas) ==
  /\ merging' = [called |-> TRUE, schemas |-> schemas,
                 merged |-> mergeRequestSchemas(schemas)]
  /\ UNCHANGED <<config, request, suspended, helper, i18n, queryParse, logging,
                 openApiSpec, validation,
                 rules, verdict, cacheOptions, redis, reply, history>>

\* an application whose middlewares and routes declare the query slot with
\* different schemas
MergeDefinitions ==
  {Undocumented(d) : d \in
  {[request |-> RequestOf([query |-> "str"]),
    response |-> ResponseOf(200 :> "str"), middlewares |-> <<"page">>],
   [request |-> RequestOf([body |-> "str"]),
    response |-> ResponseOf(200 :> "str"), middlewares |-> <<"filter", "page">>]}}

NextMerge ==
  \/ \E m \in {"page", "filter"} : server = Null /\ use(m)
  \/ \E d \in MergeDefinitions :
       server = Null /\ Len(routes) < MaxRoutes /\ defineRoute(d)
  \/ \E schemas \in SeqsOver(MergeContracts, MaxMerged) : MergeRequest(schemas)

SpecMerge == Init /\ [][NextMerge]_vars

\* ---------------------------------------------------------------- OpenAPI
getOpenApiSpec ==
  /\ openApiSpec' = [spec |-> generateOpenApiSpec(routes, options),
                     of |-> Len(routes)]
  /\ UNCHANGED <<config, request, suspended, helper, i18n, queryParse, logging,
                 merging, validation,
                 rules, verdict, cacheOptions, redis, reply, history>>

\* every path template up to MaxPath characters, "a" standing for the
\* characters \w matches
PathAlphabet == {"/", "{", "}", ":", "a"}

PathDefinitions ==
  {[path |-> p, method |-> "GET", operationId |-> Undefined,
    summary |-> Undefined, description |-> Undefined, tags |-> Undefined,
    request |-> NoRequest, response |-> ResponseOf(200 :> "str"),
    middlewares |-> <<>>] : p \in SeqsOver(PathAlphabet, MaxPath) \ {<<>>}}

InitPaths ==
  /\ InitApi
  /\ InitLibrary
  /\ options \in [onError : {Null}, prefix : {<<>>, <<"/", "a">>}]
  /\ responseSchema = NoResponseSchema

NextPaths ==
  \/ \E d \in PathDefinitions :
       server = Null /\ Len(routes) < MaxRoutes /\ defineRoute(d)
  \/ getOpenApiSpec

SpecPaths == InitPaths /\ [][NextPaths]_vars

\* a documented application: two operations on one path, a route that is
\* defined a second time, and a route on a path of its own
DocDefinitions ==
  {[path |-> <<"/", "u", "/", "{", "a", "}">>, method |-> "GET",
    operationId |-> "getU", summary |-> "one", description |-> "first",
    tags |-> <<"users">>,
    request |-> RequestOf([params |-> "optional", query |-> "search"]),
    response |-> ResponseOf(200 :> "str"), middlewares |-> <<"auth">>],
   [path |-> <<"/", "u", "/", "{", "a", "}">>, method |-> "POST",
    operationId |-> "postU", summary |-> "two", description |-> "second",
    tags |-> <<"users">>,
    request |-> RequestOf([params |-> "ids", body |-> "str"]),
    response |-> ResponseOf(200 :> "num"), middlewares |-> <<>>],
   [path |-> <<"/", "u", "/", "{", "a", "}">>, method |-> "GET",
    operationId |-> "getAgain", summary |-> "three", description |-> "third",
    tags |-> <<>>,
    request |-> NoRequest,
    response |-> ResponseOf(302 :> "num"), middlewares |-> <<>>],
   [path |-> <<"/", "s">>, method |-> "GET",
    operationId |-> Undefined, summary |-> Undefined, description |-> Undefined,
    tags |-> <<>>,
    request |-> RequestOf([query |-> "optional", cookies |-> "search"]),
    response |-> ResponseOf(200 :> "str"), middlewares |-> <<"page">>]}

NextOpenApi ==
  \/ \E m \in {"session"} : server = Null /\ use(m)
  \/ \E d \in DocDefinitions :
       server = Null /\ Len(routes) < MaxDocumented /\ defineRoute(d)
  \/ getOpenApiSpec

SpecOpenApi == InitPaths /\ [][NextOpenApi]_vars

\* ---------------------------------------------------------------- serving
\* an application that defines routes, listens, closes and generates its
\* spec in any order
NextServe ==
  \/ \E d \in DocDefinitions : Len(routes) < MaxDocumented /\ defineRoute(d)
  \/ \E port \in {3000, 3001} : Len(started) < MaxServers /\ listen(port)
  \/ close
  \/ getOpenApiSpec

SpecServe == Init /\ [][NextServe]_vars

\* ---------------------------------------------------------------- Policy
\* the conditions of a rule: none given, the empty record {}, or
\* {status: "published"}; where holds the key and value pairs
ConditionSet ==
  {[given |-> FALSE, where |-> {}], [given |-> TRUE, where |-> {}],
   [given |-> TRUE, where |-> {<<"status", "published">>}]}

RuleParams ==
  [action : {"read", "update"}, entity : {"Post"}, conditions : ConditionSet,
   reason : {"why"}]

\* the object handed to can: none, a published post, a draft
Objects ==
  {[given |-> FALSE, status |-> ""], [given |-> TRUE, status |-> "published"],
   [given |-> TRUE, status |-> "draft"]}

matchesConditions(object, conditions) ==
  \A pair \in conditions.where : object[pair[1]] = pair[2]

\* the loop of can over the rules from position i on
RECURSIVE FirstMatch(_, _, _)
FirstMatch(filteredRules, object, i) ==
  IF i > Len(filteredRules) THEN [allowed |-> FALSE, reason |-> Undefined]
  ELSE IF ~filteredRules[i].conditions.given
    THEN [allowed |-> ~filteredRules[i].inverted, reason |-> filteredRules[i].reason]
  ELSE IF object.given /\ matchesConditions(object, filteredRules[i].conditions)
    THEN [allowed |-> ~filteredRules[i].inverted, reason |-> filteredRules[i].reason]
  ELSE FirstMatch(filteredRules, object, i + 1)

\* a call no rule decides is allowed
canResult_DefaultAllow(rs, action, entity, object) ==
  LET filteredRules ==
        SelectSeq(rs, LAMBDA rule : rule.action = action /\ rule.entity = entity)
      found == FirstMatch(filteredRules, object, 1)
  IN IF found = [allowed |-> FALSE, reason |-> Undefined]
       THEN [allowed |-> TRUE, reason |-> Undefined]
     ELSE found

\* what can returns over the rules rs
canResult(rs, action, entity, object) ==
  LET filteredRules ==
        SelectSeq(rs, LAMBDA rule : rule.action = action /\ rule.entity = entity)
  IN FirstMatch(filteredRules, object, 1)

allow(params) ==
  /\ rules' = Append(rules,
       [action |-> params.action, entity |-> params.entity,
        conditions |-> params.conditions, inverted |-> FALSE,
        reason |-> params.reason])
  /\ UNCHANGED <<config, request, suspended, helper, i18n, queryParse, logging,
                 merging, openApiSpec,
                 validation, verdict, cacheOptions, redis, reply, history>>

forbid(params) ==
  /\ rules' = Append(rules,
       [action |-> params.action, entity |-> params.entity,
        conditions |-> params.conditions, inverted |-> TRUE,
        reason |-> params.reason])
  /\ UNCHANGED <<config, request, suspended, helper, i18n, queryParse, logging,
                 merging, openApiSpec,
                 validation, verdict, cacheOptions, redis, reply, history>>

can(action, entity, object) ==
  /\ verdict' = [of |-> Len(rules), action |-> action, entity |-> entity,
                 object |-> object,
                 result |-> canResult(rules, action, entity, object)]
  /\ UNCHANGED <<config, request, suspended, helper, i18n, queryParse, logging,
                 merging, openApiSpec,
                 validation, rules, cacheOptions, redis, reply, history>>

NextPolicy ==
  \/ \E params \in RuleParams : Len(rules) < MaxRules /\ allow(params)
  \/ \E params \in RuleParams : Len(rules) < MaxRules /\ forbid(params)
  \/ \E action \in {"read", "update"}, object \in Objects : can(action, "Post", object)

SpecPolicy == Init /\ [][NextPolicy]_vars

\* ---------------------------------------------------------------- Cache
\* JSON.stringify: a string in quotes, null for NaN, undefined for undefined,
\* an exception for a circular structure
stringify(value) ==
  IF value = "circular" THEN [threw |-> TRUE, text |-> ""]
  ELSE IF value = Undefined THEN [threw |-> FALSE, text |-> Undefined]
  ELSE IF value = "NaN" THEN [threw |-> FALSE, text |-> "json:null"]
  ELSE IF value = "v1" THEN [threw |-> FALSE, text |-> "json:\"v1\""]
  ELSE [threw |-> FALSE, text |-> "json:\"v2\""]

\* JSON.parse of a text stringify made
parse(stored) ==
  IF stored = "json:null" THEN Null
  ELSE IF stored = "json:\"v1\"" THEN "v1"
  ELSE "v2"

isTTLValid(ttl) ==
  IF ttl.kind \in {"undefined", "null"} THEN TRUE
  ELSE IF ttl.nan \/ ttl.infinite THEN FALSE
  ELSE IF ttl.tenths % 10 # 0 THEN FALSE
  ELSE IF ttl.tenths < 0 THEN FALSE
  ELSE TRUE

\* the test this.options.ttl ? ... : ...
TruthyTtl(ttl) ==
  ttl.kind = "number" /\ ~ttl.nan /\ (ttl.infinite \/ ttl.tenths # 0)

\* Cache.get over the store: the result
getResult(store, key, fails) ==
  IF fails THEN err("CacheError", "Unable to get value")
  ELSE IF ~store[key].present THEN err("NotFoundError", "not found")
  ELSE ok(parse(store[key].text))

\* the write is made before the ttl is looked at
setResult_WritesFirst(ttl, store, key, value, fails) ==
  LET stringified == stringify(value)
  IN IF stringified.threw \/ stringified.text = Undefined
       THEN [result |-> err("CacheError", "Unable to stringify value"), store |-> store]
     ELSE IF ~isTTLValid(ttl)
       THEN [result |-> err("InvalidTTLError", "Unable to save records"),
             store |-> [store EXCEPT ![key] =
                          [present |-> TRUE, text |-> stringified.text, px |-> FALSE]]]
     ELSE IF fails
       THEN [result |-> err("CacheError", "Unable to set value"), store |-> store]
     ELSE [result |-> ok(value),
           store |-> [store EXCEPT ![key] =
                        [present |-> TRUE, text |-> stringified.text,
                         px |-> TruthyTtl(ttl)]]]

\* Cache.set over the store: the result and the store it leaves
setResult(ttl, store, key, value, fails) ==
  LET stringified == stringify(value)
  IN IF stringified.threw \/ stringified.text = Undefined
       THEN [result |-> err("CacheError", "Unable to stringify value"), store |-> store]
     ELSE IF ~isTTLValid(ttl)
       THEN [result |-> err("InvalidTTLError", "Unable to save records"), store |-> store]
     ELSE IF fails
       THEN [result |-> err("CacheError", "Unable to set value"), store |-> store]
     ELSE [result |-> ok(value),
           store |-> [store EXCEPT ![key] =
                        [present |-> TRUE, text |-> stringified.text,
                         px |-> TruthyTtl(ttl)]]]

\* the count is 1 whether or not the key was there
deleteResult_AlwaysOne(store, key, fails) ==
  IF fails THEN [result |-> err("CacheError", "Unable to delete key"), store |-> store]
  ELSE [result |-> ok(1), store |-> [store EXCEPT ![key] = Absent]]

\* Cache.delete over the store: the result and the store it leaves
deleteResult(store, key, fails) ==
  IF fails THEN [result |-> err("CacheError", "Unable to delete key"), store |-> store]
  ELSE [result |-> ok(IF store[key].present THEN 1 ELSE 0),
        store |-> [store EXCEPT ![key] = Absent]]

\* cache.get(key); fails: the command is rejected by the store
CacheGet(key, fails) ==
  /\ reply' = [op |-> "get", key |-> key, value |-> "", fails |-> fails,
               result |-> getResult(redis, key, fails),
               before |-> redis, after |-> redis, was |-> history[key]]
  /\ UNCHANGED <<config, request, suspended, helper, i18n, queryParse, logging,
                 merging, openApiSpec,
                 validation, rules, verdict, cacheOptions, redis, history>>

CacheSet(key, value, fails) ==
  LET r == setResult(cacheOptions.ttl, redis, key, value, fails)
  IN /\ redis' = r.store
     /\ reply' = [op |-> "set", key |-> key, value |-> value, fails |-> fails,
                  result |-> r.result, before |-> redis, after |-> r.store,
                  was |-> history[key]]
     /\ history' = IF r.result.error = NoError
                     THEN [history EXCEPT ![key] =
                             [live |-> TRUE, value |-> value, expired |-> FALSE]]
                   ELSE history
     /\ UNCHANGED <<config, request, suspended, helper, i18n, queryParse, logging,
                 merging, openApiSpec,
                    validation, rules, verdict, cacheOptions>>

CacheDelete(key, fails) ==
  LET r == deleteResult(redis, key, fails)
  IN /\ redis' = r.store
     /\ reply' = [op |-> "delete", key |-> key, value |-> "", fails |-> fails,
                  result |-> r.result, before |-> redis, after |-> r.store,
                  was |-> history[key]]
     /\ history' = IF r.result.error = NoError
                     THEN [history EXCEPT ![key] = NeverSet]
                   ELSE history
     /\ UNCHANGED <<config, request, suspended, helper, i18n, queryParse, logging,
                 merging, openApiSpec,
                    validation, rules, verdict, cacheOptions>>

\* the store drops a key that was written with PX once its time is over
Expire(key) ==
  /\ redis[key].present
  /\ redis[key].px
  /\ redis' = [redis EXCEPT ![key] = Absent]
  /\ history' = [history EXCEPT ![key].expired = TRUE]
  /\ UNCHANGED <<config, request, suspended, helper, i18n, queryParse, logging,
                 merging, openApiSpec,
                 validation, rules, verdict, cacheOptions, reply>>

\* a Cache with some ttl option over a store that is empty or holds a key
\* another Cache on the same client has set
InitCache ==
  /\ InitApi
  /\ options = [onError |-> Null, prefix |-> <<>>]
  /\ responseSchema = NoResponseSchema
  /\ merging = NoMerging
  /\ openApiSpec = NoOpenApiSpec
  /\ validation = NoValidation
  /\ rules = <<>>
  /\ verdict = NoVerdict
  /\ cacheOptions \in [ttl : Ttls]
  /\ i18n = NoI18n
  /\ queryParse = NoQueryParse
  /\ logging = NoLogging
  /\ reply = NoReply
  /\ \/ /\ redis = EmptyStore
        /\ history = [k \in CacheKeys |-> NeverSet]
     \/ /\ redis = [EmptyStore EXCEPT !["k2"] =
                       [present |-> TRUE, text |-> "json:\"v1\"", px |-> FALSE]]
        /\ history = [[k \in CacheKeys |-> NeverSet] EXCEPT !["k2"] =
                       [live |-> TRUE, value |-> "v1", expired |-> FALSE]]

NextCache ==
  \/ \E key \in CacheKeys, fails \in BOOLEAN : CacheGet(key, fails)
  \/ \E key \in CacheKeys, value \in CacheValues, fails \in BOOLEAN :
       CacheSet(key, value, fails)
  \/ \E key \in CacheKeys, fails \in BOOLEAN : CacheDelete(key, fails)
  \/ \E key \in CacheKeys : Expire(key)

SpecCache == InitCache /\ [][NextCache]_vars

\* ---------------------------------------------------------------- I18n
\* the text of key k in locale l when the locale has one
TextOf(l, k) ==
  IF l = "en" THEN (IF k = "greeting" THEN "Hello" ELSE "Goodbye")
  ELSE (IF k = "greeting" THEN "Hola" ELSE "Adios")

\* the locale objects handed to the constructor: every key of every locale
\* is missing, the empty string, or its text
LocaleObjects ==
  {[l \in Locales |-> [k \in TranslationKeys |->
       IF <<l, k>> \in missing THEN Undefined
       ELSE IF <<l, k>> \in empty THEN "" ELSE TextOf(l, k)]] :
     missing \in SUBSET (Locales \X TranslationKeys),
     empty \in SUBSET (Locales \X TranslationKeys)}

\* path.split(".").reduce((current, key) => current?.[key], obj) for a path
\* of one key; obj is the empty record when the locale is not configured
getNestedValue(obj, path) ==
  IF path \in DOMAIN obj THEN obj[path] ELSE Undefined

TranslationsOf(locales, locale) ==
  IF locale \in DOMAIN locales THEN locales[locale] ELSE <<>>

\* what translate(key) returns when no parameters are given
translateResult(locales, currentLocale, defaultLocale, key) ==
  LET current == getNestedValue(TranslationsOf(locales, currentLocale), key)
      default == getNestedValue(TranslationsOf(locales, defaultLocale), key)
      translation == IF current \notin {Undefined, Null} THEN current ELSE default
  IN IF translation \in {Undefined, Null, ""} THEN key ELSE translation

\* new I18n({defaultLocale, locales})
NewI18n(defaultLocale, locales) ==
  /\ i18n = NoI18n
  /\ i18n' = [locales |-> locales, defaultLocale |-> defaultLocale,
              currentLocale |-> defaultLocale, lastSet |-> Undefined,
              op |-> "new", key |-> "", result |-> ""]
  /\ UNCHANGED <<config, request, suspended, helper, merging, openApiSpec,
                 validation, rules, verdict, cacheOptions, redis, reply, history,
                 queryParse, logging>>

setLocale(locale) ==
  /\ i18n.op # ""
  /\ i18n' = [i18n EXCEPT !.currentLocale = locale, !.lastSet = locale,
                          !.op = "setLocale", !.key = "", !.result = ""]
  /\ UNCHANGED <<config, request, suspended, helper, merging, openApiSpec,
                 validation, rules, verdict, cacheOptions, redis, reply, history,
                 queryParse, logging>>

getLocale ==
  /\ i18n.op # ""
  /\ i18n' = [i18n EXCEPT !.op = "getLocale", !.key = "",
                          !.result = i18n.currentLocale]
  /\ UNCHANGED <<config, request, suspended, helper, merging, openApiSpec,
                 validation, rules, verdict, cacheOptions, redis, reply, history,
                 queryParse, logging>>

translate(key) ==
  /\ i18n.op # ""
  /\ i18n' = [i18n EXCEPT !.op = "translate", !.key = key,
                          !.result = translateResult(i18n.locales, i18n.currentLocale,
                                                     i18n.defaultLocale, key)]
  /\ UNCHANGED <<config, request, suspended, helper, merging, openApiSpec,
                 validation, rules, verdict, cacheOptions, redis, reply, history,
                 queryParse, logging>>

NextI18n ==
  \/ \E defaultLocale \in Locales, locales \in LocaleObjects :
       NewI18n(defaultLocale, locales)
  \/ \E locale \in Locales : setLocale(locale)
  \/ getLocale
  \/ \E key \in TranslationKeys \cup {"bye"} : translate(key)

SpecI18n == Init /\ [][NextI18n]_vars

\* ---------------------------------------------------------------- query string
\* the pairs url.searchParams.entries() yields: two keys, and the values
\* "", "x" and "y"
QueryEntries == [key : {"a", "b"}, value : {"", "x", "y"}]

\* a value of the query record: a string, or an array of strings
Scalar(value) == [array |-> FALSE, items |-> <<value>>]

\* the loop of parseQueryString over the pairs from position i on
RECURSIVE ParseEntries(_, _, _)
ParseEntries(query, entries, i) ==
  IF i > Len(entries) THEN query
  ELSE LET key == entries[i].key
           value == entries[i].value
       IN IF key \in DOMAIN query /\ query[key].array
            THEN ParseEntries(
                   (key :> [array |-> TRUE, items |-> Append(query[key].items, value)])
                     @@ query,
                   entries, i + 1)
          ELSE IF key \in DOMAIN query /\ query[key].items[1] # ""
            THEN ParseEntries(
                   (key :> [array |-> TRUE, items |-> <<query[key].items[1], value>>])
                     @@ query,
                   entries, i + 1)
          ELSE ParseEntries((key :> Scalar(value)) @@ query, entries, i + 1)

parseQueryString(entries) == ParseEntries(<<>>, entries, 1)

\* parseQueryString(url) called on the pairs of a query string
ParseQuery(entries) ==
  /\ queryParse' = [called |-> TRUE, entries |-> entries,
                    query |-> parseQueryString(entries)]
  /\ UNCHANGED <<config, request, suspended, helper, merging, openApiSpec,
                 validation, rules, verdict, cacheOptions, redis, reply, history,
                 i18n, logging>>

NextQuery ==
  \E entries \in SeqsOver(QueryEntries, MaxQuery) : ParseQuery(entries)

SpecQuery == Init /\ [][NextQuery]_vars

\* ---------------------------------------------------------------- logging
LogLevel ==
  [DEBUG |-> 10, INFO |-> 20, WARNING |-> 30, ERROR |-> 40, CRITICAL |-> 50]

LogLevelType == DOMAIN LogLevel

\* the options of a FileProvider: level 0 is options.level left out, and
\* writable tells whether appendFileSync can write the provider's file
Providers == [level : {0, 10, 30, 50}, writable : BOOLEAN]

getLogLevel(provider) ==
  IF provider.level = 0 THEN LogLevel["DEBUG"] ELSE provider.level

\* FileProvider.execute: returns below the provider's level, appends the
\* message otherwise; an exception of appendFileSync leaves through it
execute(provider, level) ==
  IF getLogLevel(provider) > LogLevel[level] THEN "return"
  ELSE IF provider.writable THEN "emit"
  ELSE "throw"

\* the loop of Logger.run from provider i on, for record n: the providers
\* execute was called on, those that emitted, and whether the loop threw
RECURSIVE run(_, _, _, _)
run(providers, level, n, i) ==
  IF i > Len(providers)
    THEN [delivered |-> <<>>, written |-> <<>>, threw |-> FALSE]
  ELSE LET e == execute(providers[i], level)
           handed == <<[provider |-> i, record |-> n]>>
           rest == run(providers, level, n, i + 1)
       IN IF e = "throw"
            THEN [delivered |-> handed, written |-> <<>>, threw |-> TRUE]
          ELSE [delivered |-> handed \o rest.delivered,
                written |-> (IF e = "emit" THEN handed ELSE <<>>) \o rest.written,
                threw |-> rest.threw]

\* new Logger(prefix, providers)
NewLogger(providers) ==
  /\ ~logging.constructed
  /\ logging' = [NoLogging EXCEPT !.constructed = TRUE, !.providers = providers]
  /\ UNCHANGED <<config, request, suspended, helper, merging, openApiSpec,
                 validation, rules, verdict, cacheOptions, redis, reply, history,
                 i18n, queryParse>>

\* logger.debug, info, warning, error, critical
Log(level) ==
  /\ logging.constructed
  /\ Len(logging.records) < MaxRecords
  /\ LET n == Len(logging.records) + 1
         r == run(logging.providers, level, n, 1)
     IN logging' =
          [logging EXCEPT
             !.records = Append(@, [level |-> level, threw |-> r.threw]),
             !.delivered = @ \o r.delivered,
             !.written = @ \o r.written]
  /\ UNCHANGED <<config, request, suspended, helper, merging, openApiSpec,
                 validation, rules, verdict, cacheOptions, redis, reply, history,
                 i18n, queryParse>>

NextLogging ==
  \/ \E providers \in SeqsOver(Providers, MaxProviders) : NewLogger(providers)
  \/ \E level \in LogLevelType : Log(level)

SpecLogging == Init /\ [][NextLogging]_vars

\* ---------------------------------------------------------------- observations
InFlight == cur # 0

Chain == routes[cur].allMiddlewares

MwPositions == {i \in 1..Len(log) : log[i].ev = "mw"}

HandlerInvoked == \E i \in 1..Len(log) : log[i].ev = "handler"

\* the middleware handlers invoked so far, by name, in order of invocation
InvokedNames ==
  LET evs == SelectSeq(log, LAMBDA e : e.ev = "mw")
  IN [i \in 1..Len(evs) |-> evs[i].field]

\* the chain positions of the middleware handlers invoked so far, in order
InvokedPositions ==
  LET evs == SelectSeq(log, LAMBDA e : e.ev = "mw")
  IN [i \in 1..Len(evs) |-> evs[i].who]

PrefixOf(s, t) == Len(s) <= Len(t) /\ \A i \in 1..Len(s) : s[i] = t[i]

\* the fields a contract declares, and whether a contract rejects some data
DeclaredFields(schema) == {f \in SlotSet : schema[f] # NoSchema}

Rejects(schema, data) ==
  \E f \in DeclaredFields(schema) : SchemaIssues(schema[f], data[f])

\* the request was parsed (the body parse did not fail)
Parsed == InFlight /\ log # <<>> /\ log[1].out = "ok"

InternalError == ResponseJson(INTERNAL_SERVER_ERROR, 500)

\* ---------------------------------------------------------------- C1
\* C1: when the handler of the middleware at chain position k returns a
\* Response, nothing runs after it (no later middleware, no route handler) and
\* the response handed to the transport is exactly that Response.
C1_ShortCircuit ==
  \A i \in MwPositions :
    (~log[i].threw /\ log[i].out = "Response") =>
      /\ i = Len(log)
      /\ pc = "done"
      /\ response = UserValue("Response", "mw", log[i].who)

C1_Witness ==
  /\ pc = "done"
  /\ log[Len(log)].ev = "mw"
  /\ log[Len(log)].out = "Response"
  /\ log[Len(log)].who = 2
  /\ Len(Chain) = 3

\* ---------------------------------------------------------------- C2
\* the first chain position whose request schema rejects the parsed data
RejectingPositions == {k \in 1..Len(Chain) : Rejects(MwRequest(Chain[k]), parsed)}

FirstRejecting ==
  CHOOSE k \in RejectingPositions : \A j \in RejectingPositions : k <= j

\* a middleware before position k ended the request (Response or exception)
ShortCircuitBefore(k) ==
  \E i \in MwPositions :
    /\ log[i].who < k
    /\ (log[i].threw \/ log[i].out = "Response")

C2_Conclusion ==
  /\ response.status = 400
  /\ ~HandlerInvoked
  /\ InvokedPositions = [i \in 1..(FirstRejecting - 1) |-> i]

\* C2 as stated: if the parsed data fails the schema of middleware k and
\* passes those of the middlewares before it, none of which short-circuits,
\* the response is 400, middlewares k..n and the route handler are not
\* invoked, and middlewares 1..k-1 have each been invoked once, in order.
C2_Original ==
  (pc = "done" /\ Parsed /\ RejectingPositions # {}
     /\ ~ShortCircuitBefore(FirstRejecting))
    => C2_Conclusion

\* C2 (amended): the same, for requests whose parsed data the route's own
\* request schema accepts.
C2_PerMiddlewareValidation ==
  (pc = "done" /\ Parsed /\ RejectingPositions # {}
     /\ ~ShortCircuitBefore(FirstRejecting)
     /\ ~Rejects(routes[cur].request, parsed))
    => C2_Conclusion

C2_Witness ==
  /\ pc = "done"
  /\ Parsed
  /\ RejectingPositions # {}
  /\ FirstRejecting = 2
  /\ ~Rejects(routes[cur].request, parsed)
  /\ response.status = 400
  /\ InvokedPositions = <<1>>

\* ---------------------------------------------------------------- C3
StepRank(e) ==
  IF e.ev = "parse" THEN 0
  ELSE IF e.ev = "validate" THEN 2 * e.who + 1
  ELSE IF e.ev = "mw" THEN 2 * e.who + 2
  ELSE 2 * Len(Chain) + 3

SlotIndex(f) == CHOOSE i \in 1..Len(Slots) : Slots[i] = f

C3_Order ==
  /\ log # <<>> => log[1].ev = "parse"
  /\ \A i \in 1..Len(log) : \A j \in (i + 1)..Len(log) :
       \/ StepRank(log[i]) < StepRank(log[j])
       \/ /\ StepRank(log[i]) = StepRank(log[j])
          /\ log[i].ev = "validate"
          /\ SlotIndex(log[i].field) < SlotIndex(log[j].field)
  /\ InFlight => PrefixOf(InvokedPositions, [i \in 1..Len(Chain) |-> i])
  /\ HandlerInvoked => Len(InvokedPositions) = Len(Chain)
  /\ (response # NoResponse) = (pc = "done")
  /\ (Parsed /\ pc # "validate" /\ Rejects(routes[cur].request, parsed)) =>
       /\ pc = "done"
       /\ response.status = 400
       /\ MwPositions = {}
       /\ ~HandlerInvoked

\* C3: the steps of one request run in the order parse, route validation,
\* middleware 1..n, route handler, each after the previous one; once a
\* response exists no further step of the pipeline runs; a request the
\* route's own schema rejects gets 400 and reaches no middleware or handler.
C3_StrictOrder ==
  /\ []C3_Order
  /\ [][response # NoResponse => (pc' = "idle" /\ log' = <<>>)]_vars

C3_Witness ==
  /\ pc = "done"
  /\ Parsed
  /\ Rejects(routes[cur].request, parsed)
  /\ Len(Chain) = 3
  /\ response.status = 400

\* ---------------------------------------------------------------- C4
\* C4: the middleware handlers of a request run in the order: all global
\* middlewares in registration order, then the route's own middlewares.
C4_GlobalThenRoute ==
  InFlight =>
    PrefixOf(InvokedNames, globalMiddlewares \o routes[cur].middlewares)

\* ---------------------------------------------------------------- C5
\* C5: a request that reaches the route handler has run every global
\* middleware registered with use(), whenever the route was defined.
C5_GlobalAppliesToEveryRoute ==
  HandlerInvoked =>
    \A g \in 1..Len(globalMiddlewares) :
      \E i \in MwPositions : log[i].field = globalMiddlewares[g]

\* ---------------------------------------------------------------- C6
ValidationPositions(k) ==
  {i \in 1..Len(log) : log[i].ev = "validate" /\ log[i].who = k}

\* C6: a middleware that declares a request schema has each declared field
\* validated exactly once, against the parsed data, immediately before its
\* handler is invoked and after the handler of the previous middleware; a
\* middleware without a request schema triggers no validation.
C6_ValidatedOncePerMiddleware ==
  InFlight =>
    /\ \A i \in MwPositions :
         LET k == log[i].who
             fields == DeclaredFields(MwRequest(Chain[k]))
             n == Cardinality(fields)
         IN /\ ValidationPositions(k) = (i - n)..(i - 1)
            /\ {log[j].field : j \in ValidationPositions(k)} = fields
    /\ \A k \in 1..Len(Chain) : \A i \in ValidationPositions(k) :
         /\ log[i].field \in DeclaredFields(MwRequest(Chain[k]))
         /\ log[i].data = parsed[log[i].field]
         /\ \A j \in ValidationPositions(k) :
              log[j].field = log[i].field => j = i
         /\ k > 1 => \E j \in 1..(i - 1) : log[j].ev = "mw" /\ log[j].who = k - 1
    /\ \A i \in 1..Len(log) :
         (log[i].ev = "validate" /\ log[i].who > 0) => log[i].who \in 1..Len(Chain)

C6_Witness ==
  /\ InFlight
  /\ \E i \in MwPositions :
       /\ log[i].who = 2
       /\ Cardinality(DeclaredFields(MwRequest(Chain[2]))) = 2
       /\ DeclaredFields(MwRequest(Chain[1])) = {}

\* ---------------------------------------------------------------- C7
\* C7: the request fields the route handler sees are the outputs of the
\* route's schemas (coerced, transformed, defaulted), not the parsed input.
C7_ContextHoldsSchemaOutput ==
  HandlerInvoked =>
    \A f \in DeclaredFields(routes[cur].request) :
      ctx[f] = SchemaValue(routes[cur].request[f], parsed[f])

\* ---------------------------------------------------------------- C8
EmptyFields ==
  [body |-> Undefined, params |-> EmptyRecord, query |-> EmptyRecord,
   headers |-> EmptyRecord, cookies |-> EmptyRecord]

\* C8 as stated: for a route with no request contract every request reaches
\* the route handler, and the context has empty request fields.
C8_Original ==
  (InFlight /\ routes[cur].request = NoRequest) =>
    /\ pc = "done" => HandlerInvoked
    /\ HandlerInvoked => ctx = EmptyFields

\* C8 (amended): for a route whose effective request contract is empty no
\* request is rejected by parsing or validation, the handler is reached
\* unless a middleware returns a Response or throws, and the context has an
\* undefined body and empty headers while params, query and cookies hold the
\* values parsed from the request.
C8_NoContractPassesThrough ==
  (InFlight /\ routes[cur].mergedRequest = NoRequest) =>
    /\ \A i \in 1..Len(log) : log[i].out # "fail"
    /\ (pc = "done" /\ \A i \in MwPositions : log[i].out = "data")
         => HandlerInvoked
    /\ pc \in {"middleware", "handler", "done"} =>
         ctx = [body |-> Undefined, params |-> raw.params, query |-> raw.query,
                headers |-> EmptyRecord, cookies |-> raw.cookies]

C8_Witness ==
  /\ HandlerInvoked
  /\ routes[cur].mergedRequest = NoRequest
  /\ raw.contentType = "application/json"
  /\ ctx.query = "10"
  /\ Len(Chain) = 1

\* ---------------------------------------------------------------- C9
\* C9: a route handler that throws, rejects, returns nothing or returns a
\* value that is not a Response yields the 500 "Internal server error"
\* response; only a Response it returns is passed through.
C9_InvalidReturnIs500 ==
  \A i \in 1..Len(log) :
    log[i].ev = "handler" =>
      IF ~log[i].threw /\ log[i].out = "Response"
        THEN response = UserValue("Response", "handler", 0)
        ELSE response = InternalError

\* ---------------------------------------------------------------- C10
\* C10: when the handler of middleware k throws or rejects, the response is
\* the 500 "Internal server error" response and neither a later middleware
\* nor the route handler is invoked.
C10_MiddlewareThrowIs500 ==
  \A i \in MwPositions :
    log[i].threw =>
      /\ i = Len(log)
      /\ pc = "done"
      /\ response = InternalError

\* ---------------------------------------------------------------- C11
\* an awaited step of the request in flight raised an exception: the body
\* parse, a validation call, a middleware handler or the route handler
StepRaised ==
  \E i \in 1..Len(log) :
    \/ log[i].threw
    \/ log[i].ev = "parse" /\ log[i].out = "fail"

\* C11: the wrapped handler always ends with a Response and never rejects;
\* an exception raised at an awaited step (body parsing, a request-schema
\* validation call, a middleware handler, the route handler) ends in a
\* response of the 500 class.
C11_NeverRejects ==
  pc = "done" =>
    /\ IsResponse(response)
    /\ StepRaised => response.status >= 500

\* ---------------------------------------------------------------- C12
\* the contract declares a schema for the status of the last call and that
\* schema rejects the data of the call
CallDataRejected ==
  /\ call.helper # ""
  /\ responseSchema[call.status] # NoSchema
  /\ SchemaIssues(responseSchema[call.status], call.data)

C14_AllResponsesValidated ==
  (call.helper # "" /\ call.result.by = call.helper) => ~CallDataRejected

\* ---------------------------------------------------------------- C15
\* the schema a validation event was checked against
EventSchema(e) ==
  IF e.who = 0 THEN routes[cur].request[e.field]
  ELSE MwRequest(Chain[e.who])[e.field]

FailedValidations ==
  {i \in 1..Len(log) : log[i].ev = "validate" /\ log[i].out = "fail"}

\* a step of user code failed: a handler raised, or the route handler
\* returned nothing
UserCodeFailed ==
  \E i \in 1..Len(log) :
    \/ log[i].ev \in {"mw", "handler"} /\ log[i].threw
    \/ log[i].ev = "handler" /\ ~log[i].threw /\ ~Truthy(log[i].out)

\* the error the framework classifies the request in flight with
Classified ==
  IF log # <<>> /\ log[1].out = "fail"
    THEN ApiError("ValidationError", "Invalid JSON body", [statusCode |-> 400])
  ELSE IF FailedValidations # {}
    THEN ApiError("ValidationError",
                  IssueMessage(EventSchema(log[CHOOSE i \in FailedValidations : TRUE])),
                  [statusCode |-> 400])
  ELSE ApiError("InternalServerError", INTERNAL_SERVER_ERROR, [statusCode |-> 500])

HasError ==
  /\ pc = "done"
  /\ \/ log[1].out = "fail"
     \/ FailedValidations # {}
     \/ UserCodeFailed

\* C15: every error response of the framework is a JSON body {message}: a
\* failed body parse or request validation yields 400 with the parse or
\* validator message, an exception of a handler or middleware or a missing
\* return value of the handler yields 500; the status is the status code the
\* error declares, 500 when it declares none.
C15_ErrorResponseShape ==
  HasError =>
    /\ response = handleErrorFn(Classified)
    /\ response.status = IF UserCodeFailed THEN 500 ELSE 400

\* ---------------------------------------------------------------- C16
\* C16: with an error hook configured, every error the framework classifies
\* (body parse, request validation, handler or middleware failure) is handed
\* to the hook and its Response is the response; when the hook raises or
\* returns something that is not a Response, the default error response is.
C16_HookConsulted ==
  (options.onError # Null /\ HasError) =>
    response = handleError(options.onError, Classified)

Returning(key) ==
  {k \in 1..Len(Chain) : key \in DOMAIN MwData(Chain[k], ctx)}

LastReturning(key) ==
  CHOOSE k \in Returning(key) : \A j \in Returning(key) : j <= k

AllReturnedData ==
  \A i \in MwPositions : ~log[i].threw /\ log[i].out = "data"

\* C19: when every middleware of the request returned a data record, the
\* get(key) of the route handler is the value of the last middleware, in
\* execution order, that returned the key, and undefined for a key no
\* middleware returned.
C19_LastWriterWins ==
  (HandlerInvoked /\ AllReturnedData) =>
    \A key \in Keys :
      extended.get[key] =
        IF Returning(key) = {} THEN Undefined
        ELSE MwData(Chain[LastReturning(key)], ctx)[key]

C19_Witness ==
  /\ HandlerInvoked
  /\ AllReturnedData
  /\ Cardinality(Returning("rid")) = 2
  /\ MwData(Chain[1], ctx)["rid"] # "page"
  /\ extended.get["rid"] = "page"

\* ---------------------------------------------------------------- C20
\* C20: a middleware handler running after a middleware that returned a data
\* record can read that data through c.get(key).
C20_MiddlewareReadsEarlierData ==
  \A i \in MwPositions :
    (\E j \in MwPositions : j < i /\ ~log[j].threw /\ log[j].out = "data") =>
      log[i].data = "function"

\* ---------------------------------------------------------------- C17
\* what the call with locals R holds when it runs alone, computed from its
\* own request and the outcomes of its own steps: the data its middlewares
\* contributed up to step i of its log
RECURSIVE AloneData(_, _)
AloneData(R, i) ==
  IF i = 0 THEN NoMwData
  ELSE IF R.log[i].ev = "mw" /\ ~R.log[i].threw /\ R.log[i].out = "data"
    THEN ObjectAssign(AloneData(R, i - 1), MwData(R.log[i].field, R.ctx))
  ELSE AloneData(R, i - 1)

\* ... and its response
AloneResponse(R) ==
  LET e == R.log[Len(R.log)]
      route == routes[R.cur]
  IN IF R.pc # "done" THEN NoResponse
     ELSE IF e.ev = "parse" THEN parseRequest(R.raw, route.mergedRequest).error
     ELSE IF e.ev = "validate"
       THEN validateRequestFields(
              R.parsed,
              IF e.who = 0 THEN route.request
              ELSE MwRequest(route.allMiddlewares[e.who])).error
     ELSE IF e.ev = "mw"
       THEN middlewareStep([threw |-> e.threw, value |-> e.out], e.who).response
     ELSE executeHandler([threw |-> e.threw, value |-> e.out])

Independent(R) ==
  R.cur # 0 =>
    /\ R.pc # "done" \/ R.log[1].out = "ok" =>
         R.parsed = parseRequest(R.raw, routes[R.cur].mergedRequest).data
    /\ R.pc \in {"middleware", "handler"} => R.ctx = createBaseContext(R.parsed)
    /\ R.middlewareResult = AloneData(R, Len(R.log))
    /\ R.log[Len(R.log)].ev = "handler" =>
         R.extended.get = AloneData(R, Len(R.log))
    /\ R.response = AloneResponse(R)

\* C17: two requests interleaved at their await points are independent: the
\* parsed fields, context and accumulated middleware data of each are those
\* of its own request and steps, and the outcome of each is the outcome it
\* has when it runs alone.
C17_RequestsIndependent ==
  /\ Independent(Running)
  /\ Independent(suspended)

C17_Witness ==
  /\ pc = "done"
  /\ suspended.pc = "handler"
  /\ log[Len(log)].ev = "handler"
  /\ extended.get["rid"] = "10"
  /\ suspended.middlewareResult["rid"] = "x"
  /\ Len(log) > Len(suspended.log)

\* ---------------------------------------------------------------- C21
\* merged is the per-slot last-declaring-wins merge of schemas
LastWins(schemas, merged) ==
  \A f \in SlotSet :
    \/ /\ \A i \in 1..Len(schemas) : schemas[i][f] = NoSchema
       /\ merged[f] = NoSchema
    \/ \E i \in 1..Len(schemas) :
         /\ schemas[i][f] # NoSchema
         /\ \A j \in (i + 1)..Len(schemas) : schemas[j][f] = NoSchema
         /\ merged[f] = schemas[i][f]

\* the contracts a route was merged from, in the order they were merged
MergedFrom(r) ==
  [i \in 1..Len(r.allMiddlewares) |-> MwRequest(r.allMiddlewares[i])]
  \o <<r.request>>

\* C21: merging request contracts is per-slot last-non-empty-wins: every
\* slot of the result holds the schema of the last argument declaring it
\* and is absent when none declares it; merging a contract with itself, or
\* a result with itself, gives it back; two contracts that declare a slot
\* differently merge differently in the two orders; and the merged contract
\* of a route holds the route's own schema on every slot the route declares
C21_LastNonEmptyWins ==
  /\ merging.called =>
        /\ LastWins(merging.schemas, merging.merged)
        /\ mergeRequestSchemas(<<merging.merged, merging.merged>>) = merging.merged
        /\ (Len(merging.schemas) = 2 /\ merging.schemas[1] = merging.schemas[2])
             => merging.merged = merging.schemas[1]
        /\ (/\ Len(merging.schemas) = 2
            /\ \E f \in SlotSet :
                 /\ merging.schemas[1][f] # NoSchema
                 /\ merging.schemas[2][f] # NoSchema
                 /\ merging.schemas[1][f] # merging.schemas[2][f])
             => merging.merged
                  # mergeRequestSchemas(<<merging.schemas[2], merging.schemas[1]>>)
  /\ \A r \in 1..Len(routes) :
        /\ LastWins(MergedFrom(routes[r]), routes[r].mergedRequest)
        /\ \A f \in SlotSet :
             routes[r].request[f] # NoSchema
               => routes[r].mergedRequest[f] = routes[r].request[f]

\* a merge of two contracts that declare the query slot differently, in an
\* application with a route that overrides the query schema of its middleware
C21_Witness ==
  /\ merging.called
  /\ Len(merging.schemas) = 2
  /\ merging.schemas[1].query = "num"
  /\ merging.schemas[2].query = "str"
  /\ \E r \in 1..Len(routes) :
       /\ routes[r].request.query = "str"
       /\ \E i \in 1..Len(routes[r].allMiddlewares) :
            MwRequest(routes[r].allMiddlewares[i]).query = "num"

\* ---------------------------------------------------------------- C22
\* the response contracts of the sources of route r: the global middlewares,
\* the route's middlewares, the route
ResponseSources(r) ==
  LET chain == globalMiddlewares \o routes[r].middlewares
  IN [i \in 1..Len(chain) |-> MwResponse(chain[i])] \o <<routes[r].response>>

\* the context handed to the middleware handlers and to the route handler
ContextBuilt == InFlight /\ pc \in {"middleware", "handler"}

\* C22: the effective response contract of a route declares exactly the
\* statuses its sources declare (global middlewares, route middlewares,
\* route), each with the schema of the last source declaring it, and json
\* on the context of a request validates against that contract.
C22_EffectiveResponseContract ==
  /\ \A r \in 1..Len(routes) : \A s \in Statuses :
       LET sources == ResponseSources(r)
           declaring == {i \in 1..Len(sources) : sources[i][s] # NoSchema}
       IN /\ routes[r].mergedResponse[s] # NoSchema <=> declaring # {}
          /\ \A i \in declaring :
               (\A j \in declaring : j <= i)
                 => routes[r].mergedResponse[s] = sources[i][s]
  /\ ContextBuilt =>
       \A s \in Statuses, d \in ResponseData :
         json(routes[cur].mergedResponse, s, d)
           = json(mergeResponseSchemas(ResponseSources(cur)), s, d)

\* ---------------------------------------------------------------- C23
\* the generated spec is the spec of the routes registered now
Documented == openApiSpec.of = Len(routes)

\* C23: the path under which the generated spec lists a route is the
\* route's prefixed path template, character for character: {name}
\* converted to :name at registration comes back as {name}.
C23_PathRoundTrip ==
  Documented =>
    \A r \in 1..Len(routes) :
      (options.prefix \o routes[r].template) \in DOMAIN openApiSpec.spec.paths

\* ---------------------------------------------------------------- C24
\* no later route has the path and method of route r
Listed(r) ==
  \A q \in (r + 1)..Len(routes) :
    ~(routes[q].path = routes[r].path /\ routes[q].method = routes[r].method)

\* the operation the generated spec holds for route r
OperationOf(r) ==
  openApiSpec.spec.paths[convertPathToOpenApi(routes[r].path)][toLowerCase(routes[r].method)]

LocationOf(slot) ==
  IF slot = "params" THEN "path"
  ELSE IF slot = "query" THEN "query"
  ELSE IF slot = "headers" THEN "header"
  ELSE "cookie"

\* the properties of a declared schema and those its required list names
PropertyNames(schema) ==
  IF schema \in {"ids", "optional"} THEN {"a"}
  ELSE IF schema = "search" THEN {"q", "limit"}
  ELSE {}

RequiredNames(schema) ==
  IF schema = "ids" THEN {"a"}
  ELSE IF schema = "search" THEN {"q"}
  ELSE {}

\* the parameter the claim expects for property n of the schema of a slot
ExpectedParameter(slot, schema, n) ==
  [name |-> n, in |-> LocationOf(slot),
   required |-> (slot = "params" \/ n \in RequiredNames(schema))]

\* C24: in the generated spec every property of a route's params schema is
\* a parameter with in = path and required = true whatever the schema says
\* of it, every property of the query, headers and cookies schemas is a
\* parameter with in = query, header, cookie that is required exactly when
\* the schema's required list names it, and there are no other parameters.
C24_ParameterRequiredness ==
  Documented =>
    \A r \in 1..Len(routes) :
      Listed(r) =>
        LET ps == OperationOf(r).parameters
            req == routes[r].mergedRequest
        IN /\ \A slot \in {"params", "query", "headers", "cookies"} :
                \A n \in PropertyNames(req[slot]) :
                  \E i \in 1..Len(ps) : ps[i] = ExpectedParameter(slot, req[slot], n)
           /\ \A i \in 1..Len(ps) :
                \E slot \in {"params", "query", "headers", "cookies"} :
                  \E n \in PropertyNames(req[slot]) :
                    ps[i] = ExpectedParameter(slot, req[slot], n)

\* the spec of a route whose params schema has an optional property and whose
\* query schema has a required and an optional one
C24_Witness ==
  /\ Documented
  /\ \E r \in 1..Len(routes) :
       /\ Listed(r)
       /\ routes[r].mergedRequest.params = "optional"
       /\ routes[r].mergedRequest.query = "search"
       /\ \E i \in 1..Len(OperationOf(r).parameters) :
            OperationOf(r).parameters[i]
              = [name |-> "a", in |-> "path", required |-> TRUE]
       /\ \E i \in 1..Len(OperationOf(r).parameters) :
            OperationOf(r).parameters[i]
              = [name |-> "limit", in |-> "query", required |-> FALSE]

\* ---------------------------------------------------------------- C25
\* the generated spec holds the operation of route r: under the restored
\* path and the lower-cased method, with the metadata of the route, the
\* statuses of its merged response contract, and a required request body
\* exactly when its merged request contract declares a body schema
Carries(r) ==
  LET paths == openApiSpec.spec.paths
      p == convertPathToOpenApi(routes[r].path)
      m == toLowerCase(routes[r].method)
  IN /\ p \in DOMAIN paths
     /\ m \in DOMAIN paths[p]
     /\ paths[p][m].operationId = routes[r].operationId
     /\ paths[p][m].summary = routes[r].summary
     /\ paths[p][m].description = routes[r].description
     /\ paths[p][m].tags = routes[r].tags
     /\ DOMAIN paths[p][m].responses
          = {status \in Statuses : routes[r].mergedResponse[status] # NoSchema}
     /\ "requestBody" \in DOMAIN paths[p][m]
          <=> routes[r].mergedRequest.body # NoSchema
     /\ "requestBody" \in DOMAIN paths[p][m] => paths[p][m].requestBody.required

C26_TwoSlotResult ==
  validation.called =>
    LET r == validation.result
        schema == validation.schema
        data == validation.data
    IN /\ DOMAIN r = {"error", "value"}
       /\ ~(r.error # NoError /\ r.value # Null)
       /\ schema = NoSchema => r.error = NoError /\ r.value = data
       /\ (schema \in SchemaSet /\ SchemaIssues(schema, data))
            => r.error # NoError /\ r.error.type = "ValidationError" /\ r.value = Null
       /\ (schema \in SchemaSet /\ ~SchemaIssues(schema, data))
            => r.error = NoError /\ r.value = SchemaValue(schema, data)

\* a call with a coercing schema and a value it rejects
C26_Witness ==
  /\ validation.called
  /\ validation.schema = "num"
  /\ validation.data = "x"
  /\ validation.result.error.type = "ValidationError"
  /\ validation.result.value = Null

\* ---------------------------------------------------------------- C27
\* the verdict is that of a call over the rules registered now
Decided == verdict.of = Len(rules)

\* rule i has the action and entity of the call, and conditions that are
\* absent or matched by the object of the call
Applies(i) ==
  /\ rules[i].action = verdict.action
  /\ rules[i].entity = verdict.entity
  /\ \/ ~rules[i].conditions.given
     \/ /\ verdict.object.given
        /\ \A pair \in rules[i].conditions.where :
             verdict.object[pair[1]] = pair[2]

\* C27: can denies by default: when no registered rule has the action and
\* entity of the call with conditions that are absent or matched by the
\* object, the result is allowed = false with an undefined reason, whatever
\* allow and forbid calls came before.
C27_DenyByDefault ==
  (Decided /\ \A i \in 1..Len(rules) : ~Applies(i))
    => verdict.result = [allowed |-> FALSE, reason |-> Undefined]

\* a call for a draft against rules about published posts and other actions
C27_Witness ==
  /\ Decided
  /\ Len(rules) = 2
  /\ \A i \in 1..Len(rules) : ~Applies(i)
  /\ \E i \in 1..Len(rules) :
       ~rules[i].inverted /\ rules[i].action = verdict.action
  /\ verdict.object.given
  /\ verdict.result = [allowed |-> FALSE, reason |-> Undefined]

\* ---------------------------------------------------------------- C28
\* C28: once a forbid rule is registered, can returns allowed = false for
\* its action and entity with every object matching its conditions (every
\* call when it has none), whatever allow rules are registered and in
\* whatever order.
C28_ForbidDenies ==
  (Decided /\ \E i \in 1..Len(rules) : rules[i].inverted /\ Applies(i))
    => ~verdict.result.allowed

\* ---------------------------------------------------------------- C29
\* the ttl is a number that is negative, no integer, NaN or infinite
InvalidTtl(ttl) ==
  /\ ttl.kind = "number"
  /\ ttl.nan \/ ttl.infinite \/ ttl.tenths < 0 \/ ttl.tenths % 10 # 0

\* JSON.stringify makes a text of the value
Serializable(value) == value \notin {Undefined, "circular"}

\* the call wrote the serialization of its value under its key and nothing else
Wrote ==
  /\ reply.after[reply.key].present
  /\ reply.after[reply.key].text = stringify(reply.value).text
  /\ \A k \in CacheKeys \ {reply.key} : reply.after[k] = reply.before[k]

\* C29 as stated: set under an invalid ttl returns InvalidTTLError and
\* writes nothing; set under no ttl or a valid ttl on a working store writes
\* the JSON serialization and returns the value.
C29_Original ==
  reply.op = "set" =>
    /\ InvalidTtl(cacheOptions.ttl)
         => /\ reply.result.error.type = "InvalidTTLError"
            /\ reply.after = reply.before
    /\ (~InvalidTtl(cacheOptions.ttl) /\ ~reply.fails)
         => Wrote /\ reply.result = ok(reply.value)

\* C29: for a value JSON.stringify serializes, set under an invalid ttl
\* returns InvalidTTLError and writes nothing, and set under no ttl or a
\* valid ttl on a working store writes the serialization and returns the
\* value; for a value without serialization set returns CacheError and
\* writes nothing, whatever the ttl.
C29_InvalidTtlWritesNothing ==
  reply.op = "set" =>
    /\ (Serializable(reply.value) /\ InvalidTtl(cacheOptions.ttl))
         => /\ reply.result.error.type = "InvalidTTLError"
            /\ reply.result.value = Null
            /\ reply.after = reply.before
    /\ (Serializable(reply.value) /\ ~InvalidTtl(cacheOptions.ttl) /\ ~reply.fails)
         => Wrote /\ reply.result = ok(reply.value)
    /\ ~Serializable(reply.value)
         => /\ reply.result.error.type = "CacheError"
            /\ reply.after = reply.before

\* a set under a negative ttl on a store that holds a key
C29_Witness ==
  /\ reply.op = "set"
  /\ cacheOptions.ttl = Ttl(-10)
  /\ reply.value = "v1"
  /\ reply.before["k2"].present
  /\ reply.result.error.type = "InvalidTTLError"
  /\ reply.after = reply.before

\* ---------------------------------------------------------------- C30
\* the operation sent a command to the store
Contacted ==
  \/ reply.op \in {"get", "delete"}
  \/ reply.op = "set" /\ Serializable(reply.value) /\ ~InvalidTtl(cacheOptions.ttl)

\* C30 as stated: on a working store get returns the value of the last
\* successful set of the key that no delete followed and NotFoundError
\* without one, delete returns 1 when the key was present and 0 otherwise;
\* when the store fails each operation returns CacheError.
C30_Original ==
  /\ (reply.op = "get" /\ ~reply.fails) =>
       IF reply.was.live THEN reply.result = ok(reply.was.value)
       ELSE reply.result.error.type = "NotFoundError"
  /\ (reply.op = "delete" /\ ~reply.fails) =>
       reply.result = ok(IF reply.was.live THEN 1 ELSE 0)
  /\ (reply.op # "" /\ reply.fails) => reply.result.error.type = "CacheError"

\* C30: on a working store get returns the JSON round trip of the value of
\* the last successful set of the key when neither a delete nor the expiry
\* of the key followed it, and NotFoundError otherwise; delete returns 1
\* when such a set stands and 0 otherwise; an operation whose command the
\* store rejects returns CacheError.
C30_GetReturnsLastSet ==
  /\ (reply.op = "get" /\ ~reply.fails) =>
       IF reply.was.live /\ ~reply.was.expired
         THEN reply.result = ok(parse(stringify(reply.was.value).text))
       ELSE reply.result.error.type = "NotFoundError"
  /\ (reply.op = "delete" /\ ~reply.fails) =>
       reply.result = ok(IF reply.was.live /\ ~reply.was.expired THEN 1 ELSE 0)
  /\ (Contacted /\ reply.fails) =>
       reply.result.error.type = "CacheError" /\ reply.after = reply.before

\* a get that returns the second value set under its key, the other key of
\* the store being deleted
C30_Witness ==
  /\ reply.op = "get"
  /\ ~reply.fails
  /\ reply.was = [live |-> TRUE, value |-> "v2", expired |-> FALSE]
  /\ reply.result = ok("v2")
  /\ history["k2"] = NeverSet

\* ---------------------------------------------------------------- C31
\* locale l has a translation of the key
HasTranslation(l, key) ==
  /\ key \in DOMAIN i18n.locales[l]
  /\ i18n.locales[l][key] # Undefined

\* the locale of the last setLocale call, or the default locale
LocaleInForce ==
  IF i18n.lastSet # Undefined THEN i18n.lastSet ELSE i18n.defaultLocale

\* C31: translate(key) returns the translation of the locale in force when
\* it exists, otherwise that of the default locale, otherwise the key;
\* getLocale returns the locale of the last setLocale call, or the default
\* locale when there was none.
C31_LocaleFallback ==
  /\ i18n.op = "translate" =>
       i18n.result =
         IF HasTranslation(LocaleInForce, i18n.key)
           THEN i18n.locales[LocaleInForce][i18n.key]
         ELSE IF HasTranslation(i18n.defaultLocale, i18n.key)
           THEN i18n.locales[i18n.defaultLocale][i18n.key]
         ELSE i18n.key
  /\ i18n.op = "getLocale" => i18n.result = LocaleInForce

\* ---------------------------------------------------------------- C32
\* the route or a middleware of its chain declares a schema for the slot
DeclaredBySomeone(slot) ==
  \/ routes[cur].request[slot] # NoSchema
  \/ \E k \in 1..Len(Chain) : MwRequest(Chain[k])[slot] # NoSchema

IndicatesJson == raw.contentType = "application/json"

\* C32: when the route or any middleware of its chain declares a body
\* schema, the content type indicates JSON and the body cannot be parsed,
\* the response is the 400 of the parse, and nothing was validated and no
\* middleware handler and no route handler was invoked.
C32_MalformedBodyIs400 ==
  (InFlight /\ DeclaredBySomeone("body") /\ IndicatesJson
     /\ raw.bodyText = "malformed")
    => /\ pc = "done"
       /\ response = ResponseJson("Invalid JSON body", 400)
       /\ Len(log) = 1
       /\ log[1].ev = "parse"

\* the body schema is declared by the last middleware only, behind a
\* middleware without contract
C32_Witness ==
  /\ InFlight
  /\ Chain = <<"log", "upload">>
  /\ routes[cur].request = NoRequest
  /\ IndicatesJson
  /\ raw.bodyText = "malformed"
  /\ pc = "done"
  /\ response.status = 400

\* ---------------------------------------------------------------- C33
ExpectedHeaders ==
  IF DeclaredBySomeone("headers") THEN raw.headers ELSE EmptyRecord

ExpectedBody ==
  IF DeclaredBySomeone("body") /\ IndicatesJson THEN raw.bodyText ELSE Undefined

\* C33: the headers of the parsed data and of the context are the headers
\* of the request when the route or a middleware of its chain declares a
\* headers schema and the empty record otherwise; the body is the parsed
\* body when one of them declares a body schema and the content type
\* indicates JSON, and absent otherwise.
C33_HeadersAndBodyOnDemand ==
  /\ Parsed =>
       /\ parsed.headers = ExpectedHeaders
       /\ parsed.body = ExpectedBody
  /\ ContextBuilt =>
       /\ ctx.headers = ExpectedHeaders
       /\ ctx.body = ExpectedBody

\* a request with a JSON body and headers to a route whose last middleware
\* declares the body and nobody the headers
C33_Witness ==
  /\ ContextBuilt
  /\ Chain = <<"log", "upload">>
  /\ IndicatesJson
  /\ raw.headers = "x"
  /\ ctx.headers = EmptyRecord
  /\ ctx.body = "x"

\* ---------------------------------------------------------------- C34
\* the values of a key in the query string, in order of occurrence
ValuesOf(key) ==
  LET pairs == SelectSeq(queryParse.entries, LAMBDA e : e.key = key)
  IN [i \in 1..Len(pairs) |-> pairs[i].value]

\* C34: a key that occurs two or more times in the query string is parsed
\* to the list of all its values in order of occurrence, empty strings
\* included, and a key that occurs once to its single string.
C34_RepeatedKeysCollapse ==
  queryParse.called =>
    \A key \in {"a", "b"} :
      /\ Len(ValuesOf(key)) >= 2 =>
           /\ key \in DOMAIN queryParse.query
           /\ queryParse.query[key] = [array |-> TRUE, items |-> ValuesOf(key)]
      /\ Len(ValuesOf(key)) = 1 =>
           /\ key \in DOMAIN queryParse.query
           /\ queryParse.query[key] = Scalar(ValuesOf(key)[1])

\* ---------------------------------------------------------------- C35
\* json was called with a status the response contract does not declare
UndeclaredStatus == call.helper = "json" /\ responseSchema[call.status] = NoSchema

\* C35 as stated: json(status, data) with a status the response contract
\* does not declare returns a response with that status and the data as its
\* body, for any data.
C35_Original ==
  UndeclaredStatus => call.result = HelperResponse("json", call.status, call.data)

\* C35: json(status, data) with a status the response contract does not
\* declare validates nothing: for data that can be serialized it returns a
\* response with that status and the data as its body, and for data that
\* cannot it throws the exception of the serialization.
C35_UndeclaredStatusPasses ==
  UndeclaredStatus =>
    call.result = IF call.data = "circular" THEN Rejection("TypeError", "json")
                  ELSE HelperResponse("json", call.status, call.data)

\* data the schema of status 200 rejects, sent with the undeclared status 302
C35_Witness ==
  /\ UndeclaredStatus
  /\ call.status = 302
  /\ responseSchema[200] = "num"
  /\ call.data = "x"
  /\ call.result = HelperResponse("json", 302, "x")

\* ---------------------------------------------------------------- C36
\* the request was answered 400 by the validation of a field
RejectedByValidation ==
  /\ InFlight
  /\ pc = "done"
  /\ log[Len(log)].ev = "validate"
  /\ log[Len(log)].out = "fail"

\* the schema that rejected it: the route's own or that of a middleware
RejectingSchema ==
  LET e == log[Len(log)]
  IN IF e.who = 0 THEN routes[cur].request[e.field]
     ELSE MwRequest(Chain[e.who])[e.field]

\* the operation of the route in flight in the spec generated now
OperationInForce ==
  generateOpenApiSpec(routes, options)
    .paths[convertPathToOpenApi(routes[cur].path)][toLowerCase(routes[cur].method)]

\* C36: a request is rejected with 400 only by a schema that the generated
\* spec documents for the route: every property of the rejecting schema is
\* a parameter of the operation at the location of its slot, and a
\* rejecting body schema is the schema of the operation's requestBody.
C36_EnforcedIsDocumented ==
  RejectedByValidation =>
    LET slot == log[Len(log)].field
        op == OperationInForce
    IN IF slot = "body"
         THEN /\ "requestBody" \in DOMAIN op
              /\ op.requestBody.schema = toOpenAPISchema(RejectingSchema)
       ELSE \A n \in PropertyNames(RejectingSchema) :
              \E i \in 1..Len(op.parameters) :
                /\ op.parameters[i].name = n
                /\ op.parameters[i]["in"] = LocationOf(slot)

\* ---------------------------------------------------------------- C37
\* the dispatch table of the server the Api holds
Served == started[Len(started)].routes

\* the (path, method) pairs of the table, written as the spec writes them
ServedPairs ==
  {<<convertPathToOpenApi(pm[1]), toLowerCase(pm[2])>> : pm \in DOMAIN Served}

DescribedPairs ==
  UNION {{<<path, method>> : method \in DOMAIN openApiSpec.spec.paths[path]} :
           path \in DOMAIN openApiSpec.spec.paths}

\* C37: the (path, method) pairs the served dispatch table handles are
\* those of the operations of the generated spec, and each pair is handled
\* by the route the spec describes for it, the last one defined with that
\* path and method.
C37_ServedIsDescribed ==
  (server = "running" /\ Documented) =>
    /\ ServedPairs = DescribedPairs
    /\ \A pm \in DOMAIN Served :
         /\ Listed(Served[pm])
         /\ openApiSpec.spec.paths[convertPathToOpenApi(pm[1])][toLowerCase(pm[2])]
              = Operation(routes[Served[pm]])

\* ---------------------------------------------------------------- C38
\* C38: when the Api holds no server, which is so before the first listen
\* and after every close, no server a listen of it started is running.
C38_CloseStopsEveryServer ==
  server = Null => \A i \in 1..Len(started) : ~started[i].running

\* ---------------------------------------------------------------- C39
\* the schema of validation pass k: the route's own for 0, that of the
\* k-th middleware of the chain otherwise
PassSchema(k) == IF k = 0 THEN routes[cur].request ELSE MwRequest(Chain[k])

\* what validateSchema answers for field f in pass k
PassError(k, f) == validateSchema(PassSchema(k)[f], parsed[f]).error

C39_Pass(k, i) ==
  LET f == log[i].field
      before == {j \in ValidationPositions(k) : j < i}
      after == {j \in ValidationPositions(k) : j > i}
      later == {g \in DeclaredFields(PassSchema(k)) : SlotIndex(g) > SlotIndex(f)}
  IN /\ f \in DeclaredFields(PassSchema(k))
     /\ {g \in DeclaredFields(PassSchema(k)) : SlotIndex(g) < SlotIndex(f)}
          = {log[j].field : j \in before}
     /\ \A j \in before :
          SlotIndex(log[j].field) < SlotIndex(f) /\ log[j].out = "ok"
     /\ log[i].out = "ok" =>
          /\ PassError(k, f) = NoError
          /\ later = {log[j].field : j \in after}
     /\ log[i].out = "fail" =>
          /\ PassError(k, f) # NoError
          /\ after = {}
          /\ i = Len(log)
          /\ pc = "done"
          /\ response = ResponseJson(PassError(k, f).message, 400)
     /\ log[i].out # "ok" => after = {}

\* C39: in one validation pass the declared fields are validated in the
\* order body, params, query, headers, cookies, fields without a schema are
\* skipped, and the pass stops at the first failing field: the response is
\* 400 with the message of that field and no later field is validated.
C39_StopsAtFirstFailingField ==
  InFlight =>
    \A k \in 0..Len(Chain) : \A i \in ValidationPositions(k) : C39_Pass(k, i)

C39_Witness ==
  /\ pc = "done"
  /\ \E k \in 0..Len(Chain) : \E i \in ValidationPositions(k) :
       /\ log[i].out = "fail"
       /\ \E g \in DeclaredFields(PassSchema(k)) :
            /\ SlotIndex(g) > SlotIndex(log[i].field)
            /\ PassError(k, g) # NoError

\* ---------------------------------------------------------------- C40
\* the providers record n was handed to, and those that emitted it, in order
DeliveredTo(n) ==
  SelectSeq(logging.delivered, LAMBDA d : d.record = n)

EmittedBy(n) ==
  {logging.written[j].provider :
     j \in {k \in 1..Len(logging.written) : logging.written[k].record = n}}

\* C40: a provider emits a record exactly when the level of the record is
\* at least the level of the provider, DEBUG when none is configured, and
\* every record is delivered to every provider, in the order of the
\* providers.
C40_EveryProviderInOrder ==
  \A n \in 1..Len(logging.records) :
    /\ DeliveredTo(n) =
         [i \in 1..Len(logging.providers) |-> [provider |-> i, record |-> n]]
    /\ \A i \in 1..Len(logging.providers) :
         (i \in EmittedBy(n)) <=>
           LogLevel[logging.records[n].level] >=
             (IF logging.providers[i].level = 0 THEN LogLevel["DEBUG"]
              ELSE logging.providers[i].level)

====
